---- MODULE Spec2Model ----
(***************************************************************************)
(* Model of openshift/ci-operator-prowgen.                                 *)
(*                                                                         *)
(* Part 1: the rehearsal Executor of pkg/rehearse/jobs.go (ExecuteJobs,    *)
(* submitRehearsals, waitForJobs) as a state machine.  The ProwJob client  *)
(* (Create, Watch and the events of the watch channel) is the environment. *)
(***************************************************************************)
EXTENDS Integers, Sequences, FiniteSets, TLC

(***************************************************************************)
(* Bounds of the model.                                                    *)
(***************************************************************************)
MaxJobs == 3
MaxEvents == 3
MaxWatches == 2
MaxPR == 1

(***************************************************************************)
(* Program state.                                                          *)
(***************************************************************************)
VARIABLES
    dryRun,               \* Executor.dryRun
    pjclient,             \* Executor.pjclient: the fake clientset or the cluster client
    cluster,              \* ProwJobs (job indices) that exist in the real cluster
    prNumber,             \* Executor.prNumber
    nPresubmits,          \* len(Executor.presubmits)
    nPeriodics,           \* len(Executor.periodics)
    pc,                   \* position inside ExecuteJobs
    idx,                  \* index of the next job submitRehearsals handles
    pjs,                  \* submitRehearsals: created ProwJobs (job indices)
    errors,               \* submitRehearsals: collected errors (job indices)
    SubmittedRehearsals,  \* Executor.Metrics.SubmittedRehearsals
    heap,                 \* backing arrays of the two slices below
    FailedRehearsals,     \* Executor.Metrics.FailedRehearsals (slice header)
    PassedRehearsals,     \* Executor.Metrics.PassedRehearsals (slice header)
    jobs,                 \* waitForJobs: the watch-set (ProwJob names)
    success,              \* waitForJobs: local variable success
    createCalls,          \* client: the Create calls [job, ok], in order
    watchCalls,           \* client: the Watch calls [selector, ok], in order
    retSuccess,           \* ExecuteJobs: returned bool
    retErr,               \* ExecuteJobs: returned error
    waitErr,              \* waitForJobs: returned error
    firstTerminal,        \* stream history: first terminal state delivered per job
    nEvents,              \* stream history: number of events delivered
    lastClass,            \* stream history: what the last event delivered was
    call,                 \* the function applied outside the Executor, with its arguments
    ret                   \* what that function returned

vars == <<dryRun, pjclient, cluster, prNumber, nPresubmits, nPeriodics, pc, idx, pjs,
          errors, SubmittedRehearsals, heap, FailedRehearsals, PassedRehearsals,
          jobs, success, createCalls, watchCalls, retSuccess, retErr, waitErr,
          firstTerminal, nEvents, lastClass, call, ret>>

(***************************************************************************)
(* Constants of the program and of the ProwJob API.                        *)
(***************************************************************************)
rehearseLabel == "ci.openshift.org/rehearse"

TriggeredState == "triggered"
PendingState == "pending"
SuccessState == "success"
FailureState == "failure"
AbortedState == "aborted"
ErrorState == "error"

ProwJobStates ==
    {TriggeredState, PendingState, SuccessState, FailureState, AbortedState, ErrorState}

NoState == "none"
NoError == "nil"
ErrSubmit == "failed to submit all rehearsal jobs"
ErrSelector == "failed to create label selector"
ErrWatch == "failed to create watch for ProwJobs"
ErrType == "received a non-ProwJob from watch"

\* no function outside the Executor is applied while the Executor runs
NoCall == [fn |-> "none"]

(***************************************************************************)
(* Jobs.  Job k of 1..NJobs is e.presubmits[k] when k <= nPresubmits and   *)
(* e.periodics[k - nPresubmits] otherwise.  A created ProwJob has a fresh  *)
(* metadata name (a UUID) and Spec.Job, the name of the rehearsal job.     *)
(***************************************************************************)
NJobs == nPresubmits + nPeriodics

\* metadata.name of the ProwJob created for job k; 0 is a ProwJob of another run
PJName(k) == <<"uuid", k>>

SpecJob(k) == <<"rehearse", prNumber, k>>

\* mutant: the dry flag is ignored and the cluster client is always built
NewProwJobClient_AlwaysReal(dry) == "real"

\* NewProwJobClient: the fake clientset when dry, the cluster client otherwise
NewProwJobClient(dry) == IF dry THEN "fake" ELSE "real"

(***************************************************************************)
(* Go slices: a header (arr, len, cap) over a backing array of the heap.   *)
(***************************************************************************)
ZeroValue == <<>>

NilSlice == [arr |-> 0, len |-> 0, cap |-> 0]

SliceElems(h, s) == [i \in 1..s.len |-> h[s.arr][i]]

\* runtime growth of a small slice: double, or the needed length if larger
GrowCap(oldcap, needed) == IF needed > 2 * oldcap THEN needed ELSE 2 * oldcap

\* append(s, x): in place when capacity allows, else a fresh array
GoAppend(h, s, x) ==
    IF s.len < s.cap
    THEN [heap  |-> [h EXCEPT ![s.arr][s.len + 1] = x],
          slice |-> [s EXCEPT !.len = s.len + 1]]
    ELSE LET c == GrowCap(s.cap, s.len + 1)
             a == [i \in 1..c |-> IF i <= s.len THEN h[s.arr][i]
                                  ELSE IF i = s.len + 1 THEN x ELSE ZeroValue]
         IN  [heap  |-> Append(h, a),
              slice |-> [arr |-> Len(h) + 1, len |-> s.len + 1, cap |-> c]]

Failed == SliceElems(heap, FailedRehearsals)

Passed == SliceElems(heap, PassedRehearsals)

(***************************************************************************)
(* Initial state: NewExecutor.                                             *)
(***************************************************************************)
Init ==
    /\ dryRun \in BOOLEAN
    /\ pjclient \in {NewProwJobClient(dry) : dry \in BOOLEAN}
    /\ cluster = {}
    /\ prNumber \in 1..MaxPR
    /\ nPresubmits \in 0..MaxJobs
    /\ nPeriodics \in 0..(MaxJobs - nPresubmits)
    /\ pc = "submit"
    /\ idx = 1
    /\ pjs = <<>>
    /\ errors = <<>>
    /\ SubmittedRehearsals = <<>>
    /\ heap = <<>>
    /\ FailedRehearsals = NilSlice
    /\ PassedRehearsals = NilSlice
    /\ jobs = {}
    /\ success = TRUE
    /\ createCalls = <<>>
    /\ watchCalls = <<>>
    /\ retSuccess = TRUE
    /\ retErr = NoError
    /\ waitErr = NoError
    /\ firstTerminal = [k \in 1..(nPresubmits + nPeriodics) |-> NoState]
    /\ nEvents = 0
    /\ lastClass = "none"
    /\ call = NoCall
    /\ ret = NoCall

(***************************************************************************)
(* Executor.submitRehearsals: one loop iteration per action.  The outcome  *)
(* of pjclient.Create is chosen by the client.                             *)
(***************************************************************************)
config == <<dryRun, pjclient, prNumber, nPresubmits, nPeriodics>>

metrics == <<heap, FailedRehearsals, PassedRehearsals>>

returned == <<retSuccess, retErr, waitErr>>

stream == <<watchCalls, firstTerminal, nEvents, lastClass>>

applied == <<call, ret>>

\* submitPresubmit / submitPeriodic: build the ProwJob and call pjclient.Create;
\* only the cluster client creates the ProwJob in the cluster
Create(k, created) ==
    /\ createCalls' = Append(createCalls, [job |-> k, ok |-> created])
    /\ cluster' = IF pjclient = "real" /\ created THEN cluster \cup {k} ELSE cluster

\* mutant: the first failed submission ends submitRehearsals
NextJob_StopsOnError(i, created) == IF created THEN i + 1 ELSE NJobs + 1

\* a failed submission is recorded and the loop continues with the next job
NextJob(i, created) == i + 1

SubmitPresubmit ==
    /\ pc = "submit"
    /\ idx <= nPresubmits
    /\ \E created \in BOOLEAN :
        /\ Create(idx, created)
        /\ idx' = NextJob(idx, created)
        /\ IF created
          THEN /\ SubmittedRehearsals' = Append(SubmittedRehearsals, SpecJob(idx))
               /\ pjs' = Append(pjs, idx)
               /\ errors' = errors
          ELSE /\ errors' = Append(errors, idx)
               /\ UNCHANGED <<SubmittedRehearsals, pjs>>
    /\ UNCHANGED <<applied, config, pc, metrics, jobs, success, returned, stream>>

SubmitPeriodic ==
    /\ pc = "submit"
    /\ nPresubmits < idx
    /\ idx <= NJobs
    /\ \E created \in BOOLEAN :
        /\ Create(idx, created)
        /\ idx' = NextJob(idx, created)
        /\ IF created
          THEN /\ pjs' = Append(pjs, idx)
               /\ errors' = errors
          ELSE /\ errors' = Append(errors, idx)
               /\ pjs' = pjs
    /\ UNCHANGED <<applied, config, pc, SubmittedRehearsals, metrics, jobs, success,
                   returned, stream>>

(***************************************************************************)
(* Executor.ExecuteJobs after submitRehearsals returned, up to the first   *)
(* Watch call of waitForJobs.                                              *)
(***************************************************************************)
\* mutant: the error of submitRehearsals is dropped
submitSuccess_AlwaysTrue == TRUE

\* kerrors.NewAggregate(errors) is nil iff the list is empty
submitSuccess == errors = <<>>

\* labels.NewRequirement validates the value strconv.Itoa(prNumber)
NewRequirementOk(n) == n >= 0

\* strconv.Itoa: the decimal digits of n, after "-" when n is negative
RECURSIVE Digits(_)
Digits(n) == IF n < 10 THEN <<n>> ELSE Append(Digits(n \div 10), n % 10)

Itoa(n) == IF n < 0 THEN <<"-">> \o Digits(0 - n) ELSE Digits(n)

\* mutant: the selector asks for the label, whatever its value
Selector_AnyValue(n) == <<rehearseLabel>>

\* labels.NewSelector().Add(*req).String()
Selector(n) == <<rehearseLabel, "=", Itoa(n)>>

\* mutant: the error of waitForJobs is returned also when a submission failed
ExecuteJobsReturn_LosesSubmitError(waitSuccess, werr) ==
    /\ waitErr' = werr
    /\ retSuccess' = waitSuccess
    /\ retErr' = werr
    /\ pc' = "done"

\* the return statements of ExecuteJobs that follow waitForJobs
ExecuteJobsReturn(waitSuccess, werr) ==
    /\ waitErr' = werr
    /\ retSuccess' = waitSuccess
    /\ retErr' = IF ~submitSuccess THEN ErrSubmit ELSE werr
    /\ pc' = "done"

\* mutant: the early return for an empty watch-set is missing
NothingToWaitFor_Never(names) == FALSE

\* waitForJobs returns at once when it is given no job
NothingToWaitFor(names) == Cardinality(names) = 0

ExecuteJobsAfterSubmit ==
    /\ pc = "submit"
    /\ idx > NJobs
    /\ IF dryRun
       THEN /\ retSuccess' = TRUE
            /\ retErr' = IF submitSuccess THEN NoError ELSE ErrSubmit
            /\ pc' = "done"
            /\ UNCHANGED <<jobs, success, waitErr>>
       ELSE IF ~NewRequirementOk(prNumber)
       THEN /\ retSuccess' = FALSE
            /\ retErr' = ErrSelector
            /\ pc' = "done"
            /\ UNCHANGED <<jobs, success, waitErr>>
       ELSE LET names == {PJName(pjs[i]) : i \in 1..Len(pjs)}
            IN  /\ jobs' = names
                /\ IF NothingToWaitFor(names)
                   THEN /\ ExecuteJobsReturn(TRUE, NoError)
                        /\ success' = success
                   ELSE /\ success' = TRUE
                        /\ pc' = "watch"
                        /\ UNCHANGED returned
    /\ UNCHANGED <<applied, config, idx, pjs, errors, SubmittedRehearsals, metrics,
                   createCalls, cluster, stream>>

(***************************************************************************)
(* Executor.waitForJobs: the Watch call, one event of the channel, and the *)
(* end of the channel.                                                     *)
(***************************************************************************)
Watch ==
    /\ pc = "watch"
    /\ \E opened \in BOOLEAN :
        /\ watchCalls' = Append(watchCalls, [selector |-> Selector(prNumber), ok |-> opened])
        /\ IF opened
          THEN /\ pc' = "events"
               /\ UNCHANGED returned
          ELSE ExecuteJobsReturn(FALSE, ErrWatch)
    /\ UNCHANGED <<applied, config, idx, pjs, errors, SubmittedRehearsals, metrics, jobs,
                   success, createCalls, cluster, firstTerminal, nEvents, lastClass>>

\* the cases of the switch on pj.Status.State
FailedStates == {FailureState, AbortedState, ErrorState}

TerminalStates == FailedStates \cup {SuccessState}

\* mutant: the result of the type assertion is not checked
IsProwJob_Unchecked(ev) == TRUE

\* the type assertion event.Object.(*pjapi.ProwJob)
IsProwJob(ev) == ev.kind = "ProwJob"

\* mutant: events are not filtered by the watch-set
Has_Always(names, name) == TRUE

\* jobs.Has(pj.Name)
Has(names, name) == name \in names

\* mutant: monitoring goes on with an empty watch-set
WatchSetEmpty_Never(names) == FALSE

\* mutant: monitoring returns while one job is still watched
WatchSetEmpty_OffByOne(names) == Cardinality(names) <= 1

\* jobs.Len() == 0 after a job was deleted from the watch-set
WatchSetEmpty(names) == Cardinality(names) = 0

\* objects the watch channel can deliver: a ProwJob of this run (job k), a
\* ProwJob of another run (job 0), or an object of another type
Events ==
    [kind : {"ProwJob"}, job : {0} \cup {pjs[i] : i \in 1..Len(pjs)}, state : ProwJobStates]
        \cup {[kind |-> "Status", job |-> 0, state |-> NoState]}

\* stream history: the first terminal state delivered for each job
Delivered(ev) ==
    IF /\ ev.kind = "ProwJob"
       /\ ev.job # 0
       /\ ev.state \in TerminalStates
       /\ firstTerminal[ev.job] = NoState
    THEN [firstTerminal EXCEPT ![ev.job] = ev.state]
    ELSE firstTerminal

\* stream history: what the event ev is for the watch-set at its delivery
Classify(ev) ==
    IF ev.kind # "ProwJob" THEN "object of another type"
    ELSE IF ev.job = 0 THEN "job of another run"
    ELSE IF PJName(ev.job) \notin jobs THEN "job already removed"
    ELSE IF ev.state \in {TriggeredState, PendingState} THEN "non-terminal state"
    ELSE "terminal state"

WatchEvent ==
    /\ pc = "events"
    /\ nEvents < MaxEvents
    /\ nEvents' = nEvents + 1
    /\ \E ev \in Events :
        /\ firstTerminal' = Delivered(ev)
        /\ lastClass' = Classify(ev)
        /\ IF ~IsProwJob(ev)
           THEN /\ ExecuteJobsReturn(FALSE, ErrType)
                /\ UNCHANGED <<metrics, jobs, success>>
           ELSE IF ~Has(jobs, PJName(ev.job))
           THEN UNCHANGED <<metrics, jobs, success, pc, returned>>
           ELSE IF ev.state \notin TerminalStates
           THEN UNCHANGED <<metrics, jobs, success, pc, returned>>
           ELSE /\ IF ev.state \in FailedStates
                   THEN LET r == GoAppend(heap, FailedRehearsals, SpecJob(ev.job))
                        IN  /\ heap' = r.heap
                            /\ FailedRehearsals' = r.slice
                            /\ PassedRehearsals' = PassedRehearsals
                            /\ success' = FALSE
                   ELSE LET r == GoAppend(heap, FailedRehearsals, SpecJob(ev.job))
                        IN  /\ heap' = r.heap
                            /\ PassedRehearsals' = r.slice
                            /\ FailedRehearsals' = FailedRehearsals
                            /\ success' = success
                /\ jobs' = jobs \ {PJName(ev.job)}
                /\ IF WatchSetEmpty(jobs')
                   THEN ExecuteJobsReturn(success', NoError)
                   ELSE UNCHANGED <<pc, returned>>
    /\ UNCHANGED <<applied, config, idx, pjs, errors, SubmittedRehearsals, createCalls,
                   cluster, watchCalls>>

\* the channel was closed: the range loop ends and the outer loop calls Watch
ChannelClosed ==
    /\ pc = "events"
    /\ Len(watchCalls) < MaxWatches
    /\ pc' = "watch"
    /\ UNCHANGED <<applied, config, idx, pjs, errors, SubmittedRehearsals, metrics, jobs,
                   success, createCalls, cluster, returned, stream>>

Next ==
    \/ SubmitPresubmit
    \/ SubmitPeriodic
    \/ ExecuteJobsAfterSubmit
    \/ Watch
    \/ WatchEvent
    \/ ChannelClosed

Spec == Init /\ [][Next]_vars

TypeOK ==
    /\ pc \in {"submit", "watch", "events", "done"}
    /\ idx \in 1..(NJobs + 1)
    /\ jobs \subseteq {PJName(k) : k \in 1..NJobs}
    /\ retErr \in {NoError, ErrSubmit, ErrSelector, ErrWatch, ErrType}

(***************************************************************************)
(* Vocabulary of the properties of the Executor.                           *)
(***************************************************************************)
Range(q) == {q[i] : i \in 1..Len(q)}

\* the sequence q holds every element of the set S once and nothing else
ExactlyOnce(q, S) == Len(q) = Cardinality(S) /\ Range(q) = S

Done == pc = "done"

\* jobs for which the client answered Create with a ProwJob / with an error
CreatedJobs == {createCalls[i].job : i \in {j \in 1..Len(createCalls) : createCalls[j].ok}}

RejectedJobs == {createCalls[i].job : i \in {j \in 1..Len(createCalls) : ~createCalls[j].ok}}

JobsEndedIn(states) == {k \in CreatedJobs : firstTerminal[k] \in states}

\* ExecuteJobs of a real run returned and waitForJobs reported no stream error
ReturnedNoStreamError == Done /\ ~dryRun /\ retErr # ErrSelector /\ waitErr = NoError

(***************************************************************************)
(* C1: in a real run that returns without a stream error, metrics.passed   *)
(* holds exactly the names of the watched jobs whose terminal event was    *)
(* Succeeded, each once, and metrics.failed exactly the names of those     *)
(* whose terminal event was Failed, Aborted or Errored, each once.         *)
(* The code appends a passed job to the failed list and stores the result  *)
(* as the passed list, so this is violated.                                *)
(***************************************************************************)
C1_MetricsClassifyTerminalEvents ==
    ReturnedNoStreamError =>
        /\ ExactlyOnce(Passed, {SpecJob(k) : k \in JobsEndedIn({SuccessState})})
        /\ ExactlyOnce(Failed, {SpecJob(k) : k \in JobsEndedIn(FailedStates)})

(***************************************************************************)
(* C2 as stated: ExecuteJobs (of a real run) returns success=false         *)
(* whenever a submission failed or a watched job ended Failed, Aborted or  *)
(* Errored.                                                                *)
(***************************************************************************)
C2_Original_SuccessFalseOnAnyFailure ==
    (Done /\ ~dryRun /\ (RejectedJobs # {} \/ JobsEndedIn(FailedStates) # {}))
        => retSuccess = FALSE

(***************************************************************************)
(* C2 amended: a failed submission makes ExecuteJobs return a non-nil      *)
(* error (the bool is then whatever monitoring produced), a watched job    *)
(* seen Failed, Aborted or Errored makes it return success=false, and      *)
(* neither stops the run: every job was submitted, and a real run that     *)
(* met no stream error waited until the watch-set was empty.               *)
(***************************************************************************)
C2_FailuresReportedRunContinues ==
    Done =>
        /\ RejectedJobs # {} => retErr # NoError
        /\ JobsEndedIn(FailedStates) # {} => retSuccess = FALSE
        /\ Len(createCalls) = NJobs
        /\ ReturnedNoStreamError => jobs = {}

C2_Witness ==
    /\ ReturnedNoStreamError
    /\ RejectedJobs # {}
    /\ JobsEndedIn(FailedStates) # {}
    /\ JobsEndedIn({SuccessState}) # {}
    /\ createCalls[1].ok = FALSE

(***************************************************************************)
(* C3: a real run returns without a stream error exactly when the          *)
(* watch-set has become empty: at such a return every created job had a    *)
(* terminal state delivered, and monitoring never goes on with an empty    *)
(* watch-set.                                                              *)
(***************************************************************************)
C3_NormalReturnIffWatchSetEmpty ==
    /\ ReturnedNoStreamError =>
          /\ jobs = {}
          /\ \A k \in CreatedJobs : firstTerminal[k] \in TerminalStates
    /\ pc \in {"watch", "events"} => jobs # {}

C3_Witness ==
    /\ ReturnedNoStreamError
    /\ Cardinality(CreatedJobs) >= 2
    /\ nEvents > Cardinality(CreatedJobs)

(***************************************************************************)
(* C4: an event for a name outside the watch-set (a job of another run, or *)
(* a job already removed) and an event with a non-terminal state leave the *)
(* watch-set, the metrics and the success flag unchanged.                  *)
(***************************************************************************)
IgnoredEventStep ==
    /\ nEvents' = nEvents + 1
    /\ lastClass' \in {"job of another run", "job already removed", "non-terminal state"}

C4_IgnoredEventsChangeNothing ==
    [][IgnoredEventStep =>
          /\ jobs' = jobs
          /\ Passed' = Passed
          /\ Failed' = Failed
          /\ success' = success
          /\ pc' = pc]_vars

\* an event was delivered for a job that had been removed after it failed
C4_Witness ==
    /\ pc = "events"
    /\ lastClass = "job already removed"
    /\ Len(Failed) = 1
    /\ jobs # {}

(***************************************************************************)
(* C5: after the submission phase of a real run the watch-set is exactly   *)
(* the set of names of the jobs whose submission succeeded, and            *)
(* metrics.submitted holds every successfully submitted job, presubmit or  *)
(* periodic, exactly once.  The loop over the periodics does not append to *)
(* the submitted list, so this is violated.                                *)
(***************************************************************************)
SubmissionPhaseOver == ~dryRun /\ pc # "submit" /\ retErr # ErrSelector

C5_WatchSetAndSubmittedAfterSubmission ==
    /\ (SubmissionPhaseOver /\ watchCalls = <<>> /\ nEvents = 0) =>
          jobs = {PJName(k) : k \in CreatedJobs}
    /\ SubmissionPhaseOver =>
          ExactlyOnce(SubmittedRehearsals, {SpecJob(k) : k \in CreatedJobs})

(***************************************************************************)
(* C6: submitRehearsals calls Create for every presubmit and every         *)
(* periodic exactly once, in order, whatever the earlier outcomes, and its *)
(* error is non-nil iff at least one Create failed.                        *)
(***************************************************************************)
SubmitRehearsalsReturned == pc # "submit" \/ idx > NJobs

C6_BestEffortSubmission ==
    /\ \A i \in 1..Len(createCalls) : createCalls[i].job = i
    /\ Len(createCalls) <= NJobs
    /\ SubmitRehearsalsReturned =>
          /\ Len(createCalls) = NJobs
          /\ ~submitSuccess <=> RejectedJobs # {}
          /\ Range(pjs) = CreatedJobs
          /\ Range(errors) = RejectedJobs

\* the first job was rejected and both a later presubmit and a periodic were created
C6_Witness ==
    /\ SubmitRehearsalsReturned
    /\ nPresubmits = 2
    /\ nPeriodics = 1
    /\ RejectedJobs = {1}
    /\ CreatedJobs = {2, 3}

(***************************************************************************)
(* C7 as stated: in dry-run mode Create (the Submit operation of the       *)
(* execution backend interface) is never called.                           *)
(***************************************************************************)
C7_Original_DryRunNeverCallsCreate == dryRun => createCalls = <<>>

(***************************************************************************)
(* C7 amended: in dry-run mode ExecuteJobs still calls Create on its       *)
(* client once per rehearsal job; no ProwJob is created in the cluster     *)
(* when that client is the one NewProwJobClient returns for dry=true.      *)
(***************************************************************************)
C7_DryRunCreatesOnlyOnFakeClient ==
    dryRun =>
        /\ Done => Len(createCalls) = NJobs
        /\ pjclient = NewProwJobClient(dryRun) => cluster = {}

C7_Witness ==
    /\ dryRun
    /\ Done
    /\ pjclient = NewProwJobClient(dryRun)
    /\ Cardinality(CreatedJobs) >= 2

(***************************************************************************)
(* C8: in dry-run mode no status stream is ever opened, and ExecuteJobs    *)
(* reports success (true with a nil error) unless some job failed to be    *)
(* rendered, in which case it returns an error.                            *)
(***************************************************************************)
ReportsSuccess == retSuccess /\ retErr = NoError

C9_ZeroJobsSucceedWithoutStream ==
    NJobs = 0 =>
        /\ watchCalls = <<>>
        /\ SubmittedRehearsals = <<>>
        /\ Passed = <<>>
        /\ Failed = <<>>
        /\ Done => (retSuccess = TRUE /\ retErr = NoError)

C9_Witness == NJobs = 0 /\ Done /\ ~dryRun

(***************************************************************************)
(* C10: when Watch fails or the channel delivers an object that is not a   *)
(* ProwJob, monitoring stops in that step and ExecuteJobs returns          *)
(* success=false with an error; no event is processed after the return,    *)
(* and the jobs still in the watch-set are in neither passed nor failed.   *)
(***************************************************************************)
StreamErrorStep ==
    \/ /\ Len(watchCalls') = Len(watchCalls) + 1
       /\ ~watchCalls'[Len(watchCalls')].ok
    \/ /\ nEvents' = nEvents + 1
       /\ lastClass' = "object of another type"

C10_StreamErrorStopsMonitoring ==
    [][/\ pc # "done"
       /\ StreamErrorStep =>
             /\ pc' = "done"
             /\ retSuccess' = FALSE
             /\ retErr' # NoError
             /\ waitErr' # NoError
             /\ jobs' = jobs
             /\ Passed' = Passed
             /\ Failed' = Failed
             /\ \A k \in 1..NJobs : PJName(k) \in jobs' =>
                   SpecJob(k) \notin Range(Passed') \cup Range(Failed')]_vars

\* an object of another type arrived after one job passed and while one was outstanding
C10_Witness ==
    /\ Done
    /\ ~dryRun
    /\ lastClass = "object of another type"
    /\ jobs # {}
    /\ JobsEndedIn({SuccessState}) # {}
    /\ retSuccess = FALSE

(***************************************************************************)
(* C26: in a real run every submission attempt happens before the status   *)
(* stream is opened: when Watch is called Create has been called for every *)
(* job, no Create call follows a Watch call, and once monitoring has       *)
(* started the watch-set gets no new member, it only shrinks.              *)
(***************************************************************************)
C26_SubmissionsPrecedeMonitoring ==
    [][~dryRun =>
          /\ watchCalls' # <<>> => Len(createCalls') = NJobs
          /\ watchCalls # <<>> => createCalls' = createCalls
          /\ pc \in {"watch", "events"} => jobs' \subseteq jobs]_vars

\* a stream is open after three submission attempts of which one failed, and
\* one of the two jobs watched was removed from the watch-set
C26_Witness ==
    /\ ~dryRun
    /\ pc = "events"
    /\ Len(createCalls) = 3
    /\ Cardinality(RejectedJobs) = 1
    /\ Cardinality(jobs) = 1

\* the Watch calls of the run all carry the selector of the run (the number
\* of the pull request has one digit)
SelectedByRun ==
    \A i \in 1..Len(watchCalls) :
        watchCalls[i].selector = <<"ci.openshift.org/rehearse", "=", <<prNumber>>>>

\* a real run was given a watch-set with a job in it, and returned
MonitoredAndReturned == Done /\ ~dryRun /\ pjs # <<>> /\ retErr # ErrSelector

\* waitForJobs returned because the watch-set was empty or with a stream error
EndedEmptyOrInError ==
    \/ jobs = {} /\ waitErr = NoError
    \/ waitErr \in {ErrWatch, ErrType}

(***************************************************************************)
(* C27 as stated: a real run with a non-empty watch-set opens exactly one  *)
(* status-event stream, filtered by the label selector                     *)
(* ci.openshift.org/rehearse=<prNumber>, and the monitoring loop ends only *)
(* because the watch-set became empty or the stream ended in error.        *)
(***************************************************************************)
C27_Original_ExactlyOneStream ==
    MonitoredAndReturned =>
        /\ Len(watchCalls) = 1
        /\ SelectedByRun
        /\ EndedEmptyOrInError

\* a step that calls Watch, and a step after which Watch is to be called
OpensStream == Len(watchCalls') = Len(watchCalls) + 1

ToOpenStream == pc # "watch" /\ pc' = "watch"

(***************************************************************************)
(* C27 amended: a real run with a non-empty watch-set calls Watch at least *)
(* once, and again each time the event channel of the open stream is       *)
(* closed (then with watch-set, metrics and success flag as they were);    *)
(* every call carries the label selector                                   *)
(* ci.openshift.org/rehearse=<prNumber>; and the monitoring loop ends only *)
(* because the watch-set became empty or because of a stream error (Watch  *)
(* failed, or an object that is no ProwJob was delivered).                 *)
(***************************************************************************)
C27_StreamPerClosedChannel ==
    /\ [](MonitoredAndReturned =>
             /\ Len(watchCalls) >= 1
             /\ SelectedByRun
             /\ EndedEmptyOrInError
             /\ \A i \in 1..(Len(watchCalls) - 1) : watchCalls[i].ok)
    /\ [][/\ OpensStream => pc = "watch" /\ ~dryRun
          /\ ToOpenStream =>
                \/ pc = "submit" /\ watchCalls = <<>> /\ jobs' # {}
                \/ /\ pc = "events"
                   /\ watchCalls[Len(watchCalls)].ok
                   /\ UNCHANGED <<jobs, metrics, success, watchCalls>>]_vars

\* the channel of the first stream was closed after one job passed; the
\* second stream delivered the terminal state of the other job
C27_Witness ==
    /\ MonitoredAndReturned
    /\ Len(watchCalls) = 2
    /\ watchCalls[2].ok
    /\ jobs = {}
    /\ waitErr = NoError
    /\ Cardinality(CreatedJobs) = 2
    /\ nEvents = 2

(***************************************************************************)
(* The Executor with the progress its code makes by itself: the loops of   *)
(* submitRehearsals go on to the next job, ExecuteJobs goes on after them, *)
(* and a call of Watch returns.  What the stream delivers, and when its    *)
(* channel is closed, is up to the backend.                                *)
(***************************************************************************)
MaxLiveJobs == 2

InitLive ==
    /\ Init
    /\ nPresubmits + nPeriodics <= MaxLiveJobs
    /\ pjclient = NewProwJobClient(dryRun)

SpecLive ==
    /\ InitLive
    /\ [][Next]_vars
    /\ WF_vars(SubmitPresubmit)
    /\ WF_vars(SubmitPeriodic)
    /\ WF_vars(ExecuteJobsAfterSubmit)
    /\ WF_vars(Watch)

\* a terminal state was delivered for every job that was created
AllDelivered == \A k \in Range(pjs) : firstTerminal[k] \in TerminalStates

(***************************************************************************)
(* C28: monitoring terminates when the backend cooperates: if a terminal   *)
(* state is eventually delivered for every job of the watch-set, also when *)
(* the event channel is closed in between and a new stream is opened,      *)
(* ExecuteJobs eventually returns.                                         *)
(***************************************************************************)
C28_MonitoringTerminates == <>[]AllDelivered => <>Done

\* a real run returned with success after the channel was closed between
\* the terminal events of its two jobs
C28_Witness ==
    /\ Done
    /\ ~dryRun
    /\ Len(watchCalls) = 2
    /\ Cardinality(CreatedJobs) = 2
    /\ AllDelivered
    /\ lastClass = "terminal state"
    /\ jobs = {}
    /\ retErr = NoError

(***************************************************************************)
(* Part 2: the change detector, package diffs.  Its functions are pure;    *)
(* call holds the master and the candidate corpora they are applied to and *)
(* ret what they returned.  The Executor is at rest meanwhile.             *)
(***************************************************************************)
MaxTests == 2

\* the nil pointer, and the place of a file or of a job that is not there
Nil == [nil |-> TRUE]

\* a key missing from a Go map reads as the zero value of the element type
Lookup(m, k, zero) == IF k \in DOMAIN m THEN m[k] ELSE zero

\* Strings the code takes apart are sequences of their pieces.
HasPrefix(s, prefix) ==
    Len(s) >= Len(prefix) /\ SubSeq(s, 1, Len(prefix)) = prefix

TrimPrefix(s, prefix) ==
    IF HasPrefix(s, prefix) THEN SubSeq(s, Len(prefix) + 1, Len(s)) ELSE s

\* mutant: no two values are equal
DeepEqual_Never(a, b) == FALSE

\* equality.Semantic.DeepEqual and reflect.DeepEqual on the values of the model
DeepEqual(a, b) == a = b

(***************************************************************************)
(* BuildConfigs (ReleaseBuildConfiguration): base stands for every field   *)
(* but Tests; a test step has its name (As) and the rest of its fields.    *)
(* Names of the test steps of one configuration are unique.                *)
(***************************************************************************)
TestName(i) == <<"test", i>>

TestSteps == [As : {TestName(i) : i \in 1..MaxTests}, Commands : {"make", "make all"}]

ZeroTestStep == [As |-> <<>>, Commands |-> ""]

TestLists ==
    {t \in UNION {[1..n -> TestSteps] : n \in 0..MaxTests} :
        \A i, j \in DOMAIN t : t[i].As = t[j].As => i = j}

BuildConfigs == [base : {"golang-1.10", "golang-1.11"}, Tests : TestLists]

\* getTestsByName: the last step of a name wins
getTestsByName(tests) ==
    [as \in {tests[i].As : i \in DOMAIN tests} |->
        tests[CHOOSE i \in DOMAIN tests :
                 tests[i].As = as /\ \A j \in DOMAIN tests : tests[j].As = as => j <= i]]

\* a copy of the configuration with Tests = nil
WithoutTests(c) == [c EXCEPT !.Tests = <<>>]

\* mutant: the loop goes on to the test steps after a change outside of them
ComparesTests_NoContinue(masterConfig, prConfig, filename) ==
    filename \in DOMAIN masterConfig

\* neither "continue" of the loop body is taken for filename
ComparesTests(masterConfig, prConfig, filename) ==
    /\ filename \in DOMAIN masterConfig
    /\ DeepEqual(WithoutTests(masterConfig[filename]), WithoutTests(prConfig[filename]))

\* mutant: a step is compared only when master has a step of its name
ChangedTests_SkipsNewSteps(oldConfig, newConfig) ==
    LET oldTests == getTestsByName(oldConfig.Tests)
    IN  {newConfig.Tests[i].As : i \in {j \in DOMAIN newConfig.Tests :
            /\ newConfig.Tests[j].As \in DOMAIN oldTests
            /\ ~DeepEqual(oldTests[newConfig.Tests[j].As], newConfig.Tests[j])}}

\* mutant: a step of master that the candidate lacks counts as changed
ChangedTests_CountsRemovedSteps(oldConfig, newConfig) ==
    LET oldTests == getTestsByName(oldConfig.Tests)
        newTests == getTestsByName(newConfig.Tests)
    IN  {as \in DOMAIN oldTests \cup DOMAIN newTests :
            ~DeepEqual(Lookup(oldTests, as, ZeroTestStep), Lookup(newTests, as, ZeroTestStep))}

\* the set "jobs" at the end of the loop over newConfig.Tests
ChangedTests(oldConfig, newConfig) ==
    LET oldTests == getTestsByName(oldConfig.Tests)
    IN  {newConfig.Tests[i].As : i \in {j \in DOMAIN newConfig.Tests :
            ~DeepEqual(Lookup(oldTests, newConfig.Tests[j].As, ZeroTestStep),
                       newConfig.Tests[j])}}

GetChangedCiopConfigs(masterConfig, prConfig) ==
    LET byTest == {f \in DOMAIN prConfig :
                      /\ ComparesTests(masterConfig, prConfig, f)
                      /\ ChangedTests(masterConfig[f], prConfig[f]) # {}}
        whole  == {f \in DOMAIN prConfig :
                      \/ f \notin DOMAIN masterConfig
                      \/ ~DeepEqual(WithoutTests(masterConfig[f]), WithoutTests(prConfig[f]))}
    IN  [ret          |-> [f \in whole \cup byTest |-> prConfig[f]],
         affectedJobs |-> [f \in byTest |-> ChangedTests(masterConfig[f], prConfig[f])]]

(***************************************************************************)
(* Jobs of the Prow configuration.  A presubmit is kept per repository, a  *)
(* periodic in one list; names are unique per repository (per list).  The  *)
(* selections the functions return are unordered: they are sets here.      *)
(***************************************************************************)
KubernetesAgent == "kubernetes"

JenkinsAgent == "jenkins"

Concat(s, t) == s \o t

\* strings.Replace(s, old, new, -1) for a one-piece old
ReplaceAll(s, old, new) == [i \in DOMAIN s |-> IF s[i] = old THEN new ELSE s[i]]

ZeroPresubmit ==
    [Name |-> <<>>, Agent |-> "", Spec |-> Nil, Branches |-> <<>>, Context |-> ""]

ZeroPeriodic == [Name |-> <<>>, Agent |-> "", Spec |-> Nil, Interval |-> ""]

\* the one container of a job's pod and the volumes of the pod
PodSpec(image, command, args, env, volumes) ==
    [Containers |-> <<[Image |-> image, Command |-> command, Args |-> args, Env |-> env]>>,
     Volumes    |-> volumes]

\* the inner loop of getJobsByRepoAndName and getPeriodicsPerName: the last
\* job of a name wins
ByName(list) ==
    [name \in {list[i].Name : i \in DOMAIN list} |->
        list[CHOOSE i \in DOMAIN list :
                list[i].Name = name /\ \A j \in DOMAIN list : list[j].Name = name => j <= i]]

getJobsByRepoAndName(presubmits) == [repo \in DOMAIN presubmits |-> ByName(presubmits[repo])]

getPeriodicsPerName(periodics) == ByName(periodics)

\* mutant: presubmits of every agent are compared
Rehearsable_AnyAgent(job) == TRUE

\* only a candidate presubmit of the kubernetes agent is looked at
Rehearsable(job) == job.Agent = KubernetesAgent

\* mutant: a change of the agent alone is not a change
AgentChanged_Never(masterJob, job) == FALSE

AgentChanged(masterJob, job) == masterJob.Agent # job.Agent

\* the body of the inner loop of GetChangedPresubmits: is job added to ret
PresubmitChanged(masterJob, job) ==
    /\ Rehearsable(job)
    /\ \/ AgentChanged(masterJob, job)
       \/ ~DeepEqual(masterJob.Spec, job.Spec)

GetChangedPresubmits(prowMasterConfig, prowPRConfig) ==
    LET masterJobs == getJobsByRepoAndName(prowMasterConfig.Presubmits)
        added(repo) ==
            {job \in Range(prowPRConfig.Presubmits[repo]) :
                PresubmitChanged(
                    Lookup(Lookup(masterJobs, repo, <<>>), job.Name, ZeroPresubmit), job)}
    IN  [repo \in {r \in DOMAIN prowPRConfig.Presubmits : added(r) # {}} |-> added(repo)]

GetChangedPeriodics(prowMasterConfig, prowPRConfig) ==
    LET masterPeriodics == getPeriodicsPerName(prowMasterConfig.Periodics)
        prPeriodics == getPeriodicsPerName(prowPRConfig.Periodics)
    IN  {prPeriodics[name] : name \in {n \in DOMAIN prPeriodics :
            ~DeepEqual(Lookup(masterPeriodics, n, ZeroPeriodic), prPeriodics[n])}}

(***************************************************************************)
(* GetPresubmitsForCiopConfigs: the presubmits that use a changed          *)
(* BuildConfig.  An environment variable names its source in ValueFrom.    *)
(***************************************************************************)
CiopConfigCMs == {"ci-operator-configs"}

\* config.IsCiopConfigCM: is name one of the ConfigMaps of BuildConfigs
IsCiopConfigCM(name) == name \in CiopConfigCMs

\* what a call returned: the selection, or a panic of the runtime
Returned(presubmits) == [panic |-> FALSE, presubmits |-> presubmits]

Panic == [panic |-> TRUE, presubmits |-> <<>>]

Env(job) == job.Spec.Containers[1].Env

\* the keys of the environment variables of job that pass the three ifs
CiopKeys(job) ==
    {Env(job)[i].ValueFrom.ConfigMapKeyRef.Key : i \in {j \in DOMAIN Env(job) :
        /\ Env(job)[j].ValueFrom # Nil
        /\ Env(job)[j].ValueFrom.ConfigMapKeyRef # Nil
        /\ IsCiopConfigCM(Env(job)[j].ValueFrom.ConfigMapKeyRef.Name)}}

pullCiPrefix == <<"pull", "-", "ci", "-">>

\* testName of the loop body; job.Brancher.Branches[0] exists
TestNameOf(repo, job) ==
    TrimPrefix(TrimPrefix(job.Name, pullCiPrefix),
               Concat(ReplaceAll(repo, "/", "-"), <<"-", job.Branches[1], "-">>))

\* mutant: the tests a key is affected in are not looked at
SkippedAsUnaffected_Never(affectedJobs, key, testName) == FALSE

\* the "continue" before ret.Add
SkippedAsUnaffected(affectedJobs, key, testName) ==
    key \in DOMAIN affectedJobs /\ testName \notin affectedJobs[key]

\* the loop body reads job.Brancher.Branches[0]
ReadsBranch(job, ciopConfigs) ==
    job.Agent = KubernetesAgent /\ CiopKeys(job) \cap DOMAIN ciopConfigs # {}

GetPresubmitsForCiopConfigs(prowConfig, ciopConfigs, affectedJobs) ==
    LET added(repo) ==
            {job \in Range(prowConfig.Presubmits[repo]) :
                /\ ReadsBranch(job, ciopConfigs)
                /\ \E key \in CiopKeys(job) \cap DOMAIN ciopConfigs :
                      ~SkippedAsUnaffected(affectedJobs, key, TestNameOf(repo, job))}
    IN  IF \E repo \in DOMAIN prowConfig.Presubmits :
              \E job \in Range(prowConfig.Presubmits[repo]) :
                  ReadsBranch(job, ciopConfigs) /\ job.Branches = <<>>
        THEN Panic
        ELSE Returned([repo \in {r \in DOMAIN prowConfig.Presubmits : added(r) # {}} |->
                          added(repo)])

(***************************************************************************)
(* The corpora the change detector is applied to.  Each family below       *)
(* varies one part of the two corpora over all its values and keeps the    *)
(* other parts at a fixed value.                                           *)
(***************************************************************************)
FileA == "org-repo-master.yaml"

FileB == "org-other-master.yaml"

Repo1 == <<"org", "/", "repo">>

Repo2 == <<"org", "/", "other">>

\* the name ci-operator-prowgen gives the presubmit of a test step
JobName(repo, branch, test) ==
    Concat(pullCiPrefix, Concat(ReplaceAll(repo, "/", "-"), Concat(<<"-", branch, "-">>, test)))

\* a corpus of BuildConfigs with a under FileA and b under FileB (Nil: no file)
Corpus(a, b) ==
    [f \in (IF a = Nil THEN {} ELSE {FileA}) \cup (IF b = Nil THEN {} ELSE {FileB}) |->
        IF f = FileA THEN a ELSE b]

\* the list of the jobs of slots that are there (Nil: no job)
Present(slots) ==
    LET F[i \in 0..Len(slots)] ==
            IF i = 0 THEN <<>>
            ELSE IF slots[i] = Nil THEN F[i - 1] ELSE Append(F[i - 1], slots[i])
    IN  F[Len(slots)]

\* presubmits of Repo1 (slots s1, s2) and of Repo2 (slot s3)
PresubmitsOf(s1, s2, s3) ==
    LET l1 == Present(<<s1, s2>>)
        l2 == Present(<<s3>>)
    IN  [repo \in (IF l1 = <<>> THEN {} ELSE {Repo1}) \cup (IF l2 = <<>> THEN {} ELSE {Repo2}) |->
            IF repo = Repo1 THEN l1 ELSE l2]

FromConfigMap(cm, key) ==
    [Name |-> "CONFIG_SPEC", Value |-> <<>>,
     ValueFrom |-> [ConfigMapKeyRef |-> [Name |-> cm, Key |-> key]]]

FromSecret == [Name |-> "TOKEN", Value |-> <<>>, ValueFrom |-> [ConfigMapKeyRef |-> Nil]]

Literal == [Name |-> "HOME", Value |-> <<"/tmp">>, ValueFrom |-> Nil]

Images == {"ci-operator:v1", "ci-operator:v2"}

\* the pod of a generated ci-operator job that reads the BuildConfig key
CiopSpec(image, key) ==
    PodSpec(image, <<"ci-operator">>, <<>>, <<FromConfigMap("ci-operator-configs", key)>>, <<>>)

TwoTests == [base  |-> "golang-1.10",
             Tests |-> <<[As |-> TestName(1), Commands |-> "make"],
                         [As |-> TestName(2), Commands |-> "make"]>>]

OneTest(commands) ==
    [base |-> "golang-1.10", Tests |-> <<[As |-> TestName(1), Commands |-> commands]>>]

DefaultCiop == Corpus(TwoTests, Nil)

DefaultPresubmit(i) ==
    [Name |-> JobName(Repo1, "master", TestName(i)), Agent |-> KubernetesAgent,
     Spec |-> CiopSpec("ci-operator:v1", FileA), Branches |-> <<"master">>,
     Context |-> "ci/prow/test"]

DefaultPeriodic ==
    [Name |-> <<"periodic">>, Agent |-> KubernetesAgent,
     Spec |-> CiopSpec("ci-operator:v1", FileA), Interval |-> "24h"]

DefaultProw ==
    [Presubmits |-> PresubmitsOf(DefaultPresubmit(1), DefaultPresubmit(2), Nil),
     Periodics  |-> <<DefaultPeriodic>>]

\* family 1: the BuildConfigs vary
CiopCalls ==
    \E ma \in BuildConfigs \cup {Nil}, ca \in BuildConfigs \cup {Nil},
       mb \in {Nil, OneTest("make"), OneTest("make all")}, cb \in {Nil, OneTest("make"), OneTest("make all")} :
        call = [fn |-> "diffs",
               masterConfig |-> Corpus(ma, mb), prConfig |-> Corpus(ca, cb),
               prowMasterConfig |-> DefaultProw, prowPRConfig |-> DefaultProw]

Agents == {KubernetesAgent, JenkinsAgent}

\* the presubmits a slot of name test i of repo can hold
Presubmits(repo, i) ==
    [Name : {JobName(repo, "master", TestName(i))}, Agent : Agents,
     Spec : {CiopSpec(image, FileA) : image \in Images},
     Branches : {<<"master">>}, Context : {"ci/prow/test", "ci/prow/check"}]

\* two kubernetes presubmits that differ in their Spec
FewPresubmits(repo, i) ==
    {j \in Presubmits(repo, i) : j.Agent = KubernetesAgent /\ j.Context = "ci/prow/test"}

\* family 2: the presubmits vary
PresubmitCalls ==
    \E m1 \in Presubmits(Repo1, 1) \cup {Nil}, c1 \in Presubmits(Repo1, 1) \cup {Nil},
       m2 \in FewPresubmits(Repo1, 2) \cup {Nil}, c2 \in FewPresubmits(Repo1, 2) \cup {Nil},
       m3 \in FewPresubmits(Repo2, 1) \cup {Nil}, c3 \in FewPresubmits(Repo2, 1) \cup {Nil} :
        call = [fn |-> "diffs",
               masterConfig |-> DefaultCiop, prConfig |-> DefaultCiop,
               prowMasterConfig |-> [Presubmits |-> PresubmitsOf(m1, m2, m3), Periodics |-> <<>>],
               prowPRConfig     |-> [Presubmits |-> PresubmitsOf(c1, c2, c3), Periodics |-> <<>>]]

Periodics(name) ==
    [Name : {<<name>>}, Agent : Agents,
     Spec : {CiopSpec(image, FileA) : image \in Images}, Interval : {"24h", "12h"}]

FewPeriodics(name) ==
    {j \in Periodics(name) : j.Agent = KubernetesAgent /\ j.Interval = "24h"}

\* family 3: the periodics vary
PeriodicCalls ==
    \E m1 \in Periodics("nightly") \cup {Nil}, c1 \in Periodics("nightly") \cup {Nil},
       m2 \in FewPeriodics("weekly") \cup {Nil}, c2 \in FewPeriodics("weekly") \cup {Nil} :
        call = [fn |-> "diffs",
               masterConfig |-> DefaultCiop, prConfig |-> DefaultCiop,
               prowMasterConfig |-> [Presubmits |-> <<>>, Periodics |-> Present(<<m1, m2>>)],
               prowPRConfig     |-> [Presubmits |-> <<>>, Periodics |-> Present(<<c1, c2>>)]]

\* the environments of a job: no variable, variables of other sources, the
\* BuildConfig of FileA, of FileB, of both, and FileA of another ConfigMap
Environments ==
    {<<>>, <<Literal>>, <<FromSecret>>,
     <<Literal, FromConfigMap("ci-operator-configs", FileA)>>,
     <<FromConfigMap("ci-operator-configs", FileB)>>,
     <<FromConfigMap("ci-operator-configs", FileA), FromConfigMap("ci-operator-configs", FileB)>>,
     <<FromConfigMap("cluster-profile-aws", FileA)>>}

\* presubmits of test i of Repo1 that differ in what the linkage looks at
LinkedPresubmits(i) ==
    [Name : {JobName(Repo1, "master", TestName(i))}, Agent : Agents,
     Spec : {PodSpec("ci-operator:v1", <<"ci-operator">>, <<>>, env, <<>>) : env \in Environments},
     Branches : {<<>>, <<"master">>, <<"release">>}, Context : {"ci/prow/test"}]

\* changes of TwoTests: none, outside the tests, in one test, in both tests,
\* in a test and outside the tests, the file removed
ChangesOfTwoTests ==
    {TwoTests,
     [TwoTests EXCEPT !.base = "golang-1.11"],
     [TwoTests EXCEPT !.Tests[1].Commands = "make all"],
     [TwoTests EXCEPT !.Tests[1].Commands = "make all", !.Tests[2].Commands = "make all"],
     [TwoTests EXCEPT !.base = "golang-1.11", !.Tests[1].Commands = "make all"],
     Nil}

\* family 4: the BuildConfig changes and what the presubmits read vary
LinkageCalls ==
    \E ca \in ChangesOfTwoTests, cb \in {Nil, OneTest("make")},
       j1 \in LinkedPresubmits(1) \cup {Nil}, j2 \in LinkedPresubmits(2) \cup {Nil} :
        call = [fn |-> "diffs",
               masterConfig |-> DefaultCiop, prConfig |-> Corpus(ca, cb),
               prowMasterConfig |-> [Presubmits |-> PresubmitsOf(j1, j2, Nil), Periodics |-> <<>>],
               prowPRConfig     |-> [Presubmits |-> PresubmitsOf(j1, j2, Nil), Periodics |-> <<>>]]

\* the Executor was not started
AtRest ==
    /\ dryRun = TRUE
    /\ pjclient = NewProwJobClient(TRUE)
    /\ cluster = {}
    /\ prNumber = 1
    /\ nPresubmits = 0
    /\ nPeriodics = 0
    /\ pc = "done"
    /\ idx = 1
    /\ pjs = <<>>
    /\ errors = <<>>
    /\ SubmittedRehearsals = <<>>
    /\ heap = <<>>
    /\ FailedRehearsals = NilSlice
    /\ PassedRehearsals = NilSlice
    /\ jobs = {}
    /\ success = TRUE
    /\ createCalls = <<>>
    /\ watchCalls = <<>>
    /\ retSuccess = TRUE
    /\ retErr = NoError
    /\ waitErr = NoError
    /\ firstTerminal = <<>>
    /\ nEvents = 0
    /\ lastClass = "none"

executor == <<config, cluster, pc, idx, pjs, errors, SubmittedRehearsals, metrics, jobs,
              success, createCalls, returned, stream>>

(***************************************************************************)
(* The change detector as a state machine: the four functions are applied  *)
(* to the corpora in the order of the data flow, the linkage to what       *)
(* GetChangedCiopConfigs returned.                                         *)
(***************************************************************************)
NothingReturned == [fn |-> "diffs"]

\* the function that sets the field of ret has returned
Returns(field) == field \in DOMAIN ret

InitDiff ==
    /\ AtRest
    /\ CiopCalls \/ PresubmitCalls \/ PeriodicCalls \/ LinkageCalls
    /\ ret = NothingReturned

CallGetChangedCiopConfigs ==
    /\ call.fn = "diffs"
    /\ ~Returns("ciopConfigs")
    /\ LET r == GetChangedCiopConfigs(call.masterConfig, call.prConfig)
       IN  ret' = [fn |-> "diffs", ciopConfigs |-> r.ret, affectedJobs |-> r.affectedJobs]
    /\ UNCHANGED <<call, executor>>

CallGetChangedPresubmits ==
    /\ call.fn = "diffs"
    /\ Returns("ciopConfigs")
    /\ ~Returns("changedPresubmits")
    /\ ret' = [fn |-> "diffs", ciopConfigs |-> ret.ciopConfigs,
               affectedJobs |-> ret.affectedJobs,
               changedPresubmits |->
                   GetChangedPresubmits(call.prowMasterConfig, call.prowPRConfig)]
    /\ UNCHANGED <<call, executor>>

CallGetChangedPeriodics ==
    /\ call.fn = "diffs"
    /\ Returns("changedPresubmits")
    /\ ~Returns("changedPeriodics")
    /\ ret' = [fn |-> "diffs", ciopConfigs |-> ret.ciopConfigs,
               affectedJobs |-> ret.affectedJobs,
               changedPresubmits |-> ret.changedPresubmits,
               changedPeriodics |->
                   GetChangedPeriodics(call.prowMasterConfig, call.prowPRConfig)]
    /\ UNCHANGED <<call, executor>>

CallGetPresubmitsForCiopConfigs ==
    /\ call.fn = "diffs"
    /\ Returns("changedPeriodics")
    /\ ~Returns("presubmitsForCiopConfigs")
    /\ ret' = [fn |-> "diffs", ciopConfigs |-> ret.ciopConfigs,
               affectedJobs |-> ret.affectedJobs,
               changedPresubmits |-> ret.changedPresubmits,
               changedPeriodics |-> ret.changedPeriodics,
               presubmitsForCiopConfigs |->
                   GetPresubmitsForCiopConfigs(call.prowPRConfig, ret.ciopConfigs,
                                               ret.affectedJobs)]
    /\ UNCHANGED <<call, executor>>

NextDiff ==
    \/ CallGetChangedCiopConfigs
    \/ CallGetChangedPresubmits
    \/ CallGetChangedPeriodics
    \/ CallGetPresubmitsForCiopConfigs

SpecDiff == InitDiff /\ [][NextDiff]_vars

(***************************************************************************)
(* Vocabulary of the properties of the change detector.                    *)
(***************************************************************************)
Diffing == call.fn = "diffs"

DiffDone == Diffing /\ Returns("presubmitsForCiopConfigs")

\* the jobs of a selection of presubmits, as pairs of repository and job
Selection(p) == UNION {{<<repo, job>> : job \in p[repo]} : repo \in DOMAIN p}

\* the presubmits of a corpus, as pairs of repository and job
AllPresubmits(prow) ==
    UNION {{<<repo, prow.Presubmits[repo][i]>> : i \in DOMAIN prow.Presubmits[repo]} :
              repo \in DOMAIN prow.Presubmits}

TypeOKDiff ==
    /\ Diffing
    /\ ret.fn = "diffs"
    /\ Returns("ciopConfigs") => DOMAIN ret.ciopConfigs \subseteq {FileA, FileB}
    /\ Returns("changedPeriodics") =>
          ret.changedPeriodics \subseteq Range(call.prowPRConfig.Periodics)

EqualCorpora ==
    /\ Diffing
    /\ call.masterConfig = call.prConfig
    /\ call.prowMasterConfig = call.prowPRConfig

(***************************************************************************)
(* C11: when master and candidate are equal as corpora the diff is empty:  *)
(* GetChangedCiopConfigs returns no changed BuildConfig and no affected-   *)
(* test entry, GetChangedPresubmits and GetChangedPeriodics return no job, *)
(* and the linkage pass run on that empty diff selects no job.             *)
(***************************************************************************)
C11_EqualCorporaEmptyDiff ==
    EqualCorpora =>
        /\ Returns("ciopConfigs") =>
              DOMAIN ret.ciopConfigs = {} /\ DOMAIN ret.affectedJobs = {}
        /\ Returns("changedPresubmits") => Selection(ret.changedPresubmits) = {}
        /\ Returns("changedPeriodics") => ret.changedPeriodics = {}
        /\ Returns("presubmitsForCiopConfigs") =>
              /\ ~ret.presubmitsForCiopConfigs.panic
              /\ Selection(ret.presubmitsForCiopConfigs.presubmits) = {}

\* equal corpora with a BuildConfig with tests, presubmits that read it, and
\* a periodic, after the four functions returned
C11_Witness ==
    /\ EqualCorpora
    /\ DiffDone
    /\ FileA \in DOMAIN call.prConfig
    /\ call.prConfig[FileA].Tests # <<>>
    /\ AllPresubmits(call.prowPRConfig) # {}
    /\ call.prowPRConfig.Periodics # <<>>

\* the BuildConfig keys of both corpora, and those that differ outside the tests
InBoth == DOMAIN call.masterConfig \cap DOMAIN call.prConfig

OnlyInCandidate == DOMAIN call.prConfig \ DOMAIN call.masterConfig

NonTestFieldsEqual(f) == call.masterConfig[f].base = call.prConfig[f].base

(***************************************************************************)
(* C12: a BuildConfig key has an affected-test-names entry only when the   *)
(* change is confined to test steps.  A key present only in candidate, and *)
(* a key whose candidate differs from master in a field other than the     *)
(* test steps, is in the changed mapping with the candidate config and has *)
(* no affected-test-names entry, even when test steps differ as well.      *)
(***************************************************************************)
C12_AffectedEntryOnlyForTestChanges ==
    (Diffing /\ Returns("ciopConfigs")) =>
        /\ \A f \in DOMAIN ret.affectedJobs :
              /\ f \in InBoth
              /\ NonTestFieldsEqual(f)
              /\ call.masterConfig[f].Tests # call.prConfig[f].Tests
        /\ \A f \in DOMAIN call.prConfig :
              (f \in OnlyInCandidate \/ ~NonTestFieldsEqual(f)) =>
                  /\ f \in DOMAIN ret.ciopConfigs
                  /\ ret.ciopConfigs[f] = call.prConfig[f]
                  /\ f \notin DOMAIN ret.affectedJobs

\* a key differs outside the test steps and in them, and another key is new
C12_Witness ==
    /\ Diffing
    /\ Returns("ciopConfigs")
    /\ \E f \in InBoth :
          /\ ~NonTestFieldsEqual(f)
          /\ Range(call.prConfig[f].Tests) \ Range(call.masterConfig[f].Tests) # {}
    /\ OnlyInCandidate # {}

\* names of the candidate steps of f that no step of master is equal to
ExpectedAffected(f) ==
    {t.As : t \in Range(call.prConfig[f].Tests) \ Range(call.masterConfig[f].Tests)}

(***************************************************************************)
(* C13: for a BuildConfig key of both corpora whose non-test fields are    *)
(* equal, the affected-test-names set is exactly the set of the names of   *)
(* the candidate test steps that are absent from master or not deeply      *)
(* equal to the master step of the same name; the key is reported as       *)
(* changed iff that set is not empty.                                      *)
(***************************************************************************)
C13_AffectedSetIsChangedSteps ==
    (Diffing /\ Returns("ciopConfigs")) =>
        \A f \in InBoth :
            NonTestFieldsEqual(f) =>
                /\ Lookup(ret.affectedJobs, f, {}) = ExpectedAffected(f)
                /\ f \in DOMAIN ret.ciopConfigs <=> ExpectedAffected(f) # {}

\* a key with equal non-test fields, a step that master does not have and a
\* step that master has with other content
C13_Witness ==
    /\ Diffing
    /\ Returns("ciopConfigs")
    /\ \E f \in InBoth :
          /\ NonTestFieldsEqual(f)
          /\ \E t \in Range(call.prConfig[f].Tests) :
                \A u \in Range(call.masterConfig[f].Tests) : u.As # t.As
          /\ \E t \in Range(call.prConfig[f].Tests) :
                \E u \in Range(call.masterConfig[f].Tests) : u.As = t.As /\ u # t
          /\ ret.affectedJobs[f] = ExpectedAffected(f)

\* the presubmits of master with the repository and the name of job
MasterPresubmits(repo, job) ==
    {m \in AllPresubmits(call.prowMasterConfig) : m[1] = repo /\ m[2].Name = job.Name}

MasterPeriodics(job) ==
    {m \in Range(call.prowMasterConfig.Periodics) : m.Name = job.Name}

ChangedPresubmit(repo, job) == <<repo, job>> \in Selection(ret.changedPresubmits)

JobDiffReturned == Diffing /\ Returns("changedPeriodics")

\* a periodic of candidate only is selected, a periodic equal in both is not
PeriodicsOfOneCorpusSelected ==
    \A job \in Range(call.prowPRConfig.Periodics) :
        /\ MasterPeriodics(job) = {} => job \in ret.changedPeriodics
        /\ job \in Range(call.prowMasterConfig.Periodics) => job \notin ret.changedPeriodics

(***************************************************************************)
(* C14, as stated: every job, presubmit (matched by repository and name)   *)
(* or periodic (matched by name), that is only in candidate is selected by *)
(* the job diff, and a job identical in master and candidate is never      *)
(* selected.                                                               *)
(***************************************************************************)
C14_Original_NewJobsAlwaysSelected ==
    JobDiffReturned =>
        /\ \A p \in AllPresubmits(call.prowPRConfig) :
              /\ MasterPresubmits(p[1], p[2]) = {} => ChangedPresubmit(p[1], p[2])
              /\ p \in AllPresubmits(call.prowMasterConfig) => ~ChangedPresubmit(p[1], p[2])
        /\ PeriodicsOfOneCorpusSelected

(***************************************************************************)
(* C14, amended: a presubmit only in candidate is selected iff its agent   *)
(* is kubernetes; a periodic only in candidate is always selected; a job   *)
(* identical in master and candidate is never selected.                    *)
(***************************************************************************)
C14_NewKubernetesJobsSelected ==
    JobDiffReturned =>
        /\ \A p \in AllPresubmits(call.prowPRConfig) :
              /\ MasterPresubmits(p[1], p[2]) = {} =>
                    (ChangedPresubmit(p[1], p[2]) <=> p[2].Agent = KubernetesAgent)
              /\ p \in AllPresubmits(call.prowMasterConfig) => ~ChangedPresubmit(p[1], p[2])
        /\ PeriodicsOfOneCorpusSelected

\* a jenkins presubmit only in candidate that is not selected, a kubernetes
\* presubmit only in candidate that is, and a presubmit equal in both
C14_Witness ==
    /\ JobDiffReturned
    /\ \E p \in AllPresubmits(call.prowPRConfig) :
          /\ MasterPresubmits(p[1], p[2]) = {}
          /\ p[2].Agent = JenkinsAgent
          /\ ~ChangedPresubmit(p[1], p[2])
    /\ \E p \in AllPresubmits(call.prowPRConfig) :
          /\ MasterPresubmits(p[1], p[2]) = {}
          /\ ChangedPresubmit(p[1], p[2])
    /\ AllPresubmits(call.prowPRConfig) \cap AllPresubmits(call.prowMasterConfig) # {}

(***************************************************************************)
(* C15, as stated: a presubmit whose agent differs between master and      *)
(* candidate is selected by GetChangedPresubmits whatever its Spec; when   *)
(* the agent is the same it is selected only if the Spec is not deeply     *)
(* equal.                                                                  *)
(***************************************************************************)
C15_Original_AgentChangeAlwaysSelected ==
    (Diffing /\ Returns("changedPresubmits")) =>
        \A p \in AllPresubmits(call.prowPRConfig) :
            \A m \in MasterPresubmits(p[1], p[2]) :
                /\ m[2].Agent # p[2].Agent => ChangedPresubmit(p[1], p[2])
                /\ (m[2].Agent = p[2].Agent /\ ChangedPresubmit(p[1], p[2])) =>
                      m[2].Spec # p[2].Spec

(***************************************************************************)
(* C15, amended: a candidate presubmit of the kubernetes agent whose agent *)
(* differs from master's is selected whatever its Spec; with the same      *)
(* agent it is selected iff the Spec is not deeply equal; a candidate      *)
(* presubmit of another agent is never selected.                           *)
(***************************************************************************)
C15_AgentChangeToKubernetesSelected ==
    (Diffing /\ Returns("changedPresubmits")) =>
        \A p \in AllPresubmits(call.prowPRConfig) :
            /\ p[2].Agent # KubernetesAgent => ~ChangedPresubmit(p[1], p[2])
            /\ \A m \in MasterPresubmits(p[1], p[2]) :
                  p[2].Agent = KubernetesAgent =>
                      /\ m[2].Agent # p[2].Agent => ChangedPresubmit(p[1], p[2])
                      /\ m[2].Agent = p[2].Agent =>
                            (ChangedPresubmit(p[1], p[2]) <=> m[2].Spec # p[2].Spec)

\* a presubmit went from jenkins to kubernetes with the same Spec and is selected
C15_Witness ==
    /\ Diffing
    /\ Returns("changedPresubmits")
    /\ \E p \in AllPresubmits(call.prowPRConfig) :
          \E m \in MasterPresubmits(p[1], p[2]) :
              /\ m[2].Agent = JenkinsAgent
              /\ p[2].Agent = KubernetesAgent
              /\ m[2].Spec = p[2].Spec
              /\ ChangedPresubmit(p[1], p[2])

LinkageReturned == Diffing /\ Returns("presubmitsForCiopConfigs")

Linked(repo, job) ==
    /\ ~ret.presubmitsForCiopConfigs.panic
    /\ <<repo, job>> \in Selection(ret.presubmitsForCiopConfigs.presubmits)

\* the job name without "pull-ci-" and without "<org>-<repo>-<branch>-"
DerivedTestName(repo, job) ==
    LET short == TrimPrefix(job.Name, pullCiPrefix)
    IN  IF job.Branches = <<>> THEN short
        ELSE TrimPrefix(short, Concat(ReplaceAll(repo, "/", "-"), <<"-", job.Branches[1], "-">>))

\* job reads a changed BuildConfig in which its test is affected
UsesChangedConfig(repo, job) ==
    /\ job.Agent = KubernetesAgent
    /\ \E i \in DOMAIN job.Spec.Containers[1].Env :
          LET source == job.Spec.Containers[1].Env[i].ValueFrom
          IN  /\ source # Nil
              /\ source.ConfigMapKeyRef # Nil
              /\ source.ConfigMapKeyRef.Name = "ci-operator-configs"
              /\ source.ConfigMapKeyRef.Key \in DOMAIN ret.ciopConfigs
              /\ \/ source.ConfigMapKeyRef.Key \notin DOMAIN ret.affectedJobs
                 \/ DerivedTestName(repo, job) \in ret.affectedJobs[source.ConfigMapKeyRef.Key]

(***************************************************************************)
(* C16: GetPresubmitsForCiopConfigs selects a candidate presubmit iff it   *)
(* runs on the kubernetes agent, one of its environment variables comes    *)
(* from the BuildConfig ConfigMap with a key of the changed mapping, and   *)
(* that key has no affected-test-names entry or the test name derived from *)
(* the job name is in the key's affected set; presubmits that did not      *)
(* change are considered too.                                              *)
(***************************************************************************)
C16_LinkageSelectsUsersOfChangedConfigs ==
    LinkageReturned =>
        \A p \in AllPresubmits(call.prowPRConfig) :
            Linked(p[1], p[2]) <=> UsesChangedConfig(p[1], p[2])

\* the same, for the calls that returned
C16_WhenNoPanic ==
    (LinkageReturned /\ ~ret.presubmitsForCiopConfigs.panic) =>
        \A p \in AllPresubmits(call.prowPRConfig) :
            Linked(p[1], p[2]) <=> UsesChangedConfig(p[1], p[2])

\* the candidate took test steps of master away and changed nothing else
OnlyRemovesTests(old, new) ==
    /\ WithoutTests(old) = WithoutTests(new)
    /\ Range(new.Tests) \subseteq Range(old.Tests)
    /\ Range(new.Tests) # Range(old.Tests)

(***************************************************************************)
(* C30: a BuildConfig of both corpora of which the candidate only removed  *)
(* test steps (the steps that remain and everything outside the test steps *)
(* are equal) is not among the changed configs GetChangedCiopConfigs       *)
(* returns and has no entry of affected test names; and the keys of the    *)
(* affected-test-names mapping are always keys of the changed configs.     *)
(***************************************************************************)
C30_RemovedTestsAreNoChange ==
    (Diffing /\ Returns("ciopConfigs")) =>
        /\ \A f \in DOMAIN call.masterConfig \cap DOMAIN call.prConfig :
              OnlyRemovesTests(call.masterConfig[f], call.prConfig[f]) =>
                  /\ f \notin DOMAIN ret.ciopConfigs
                  /\ f \notin DOMAIN ret.affectedJobs
        /\ DOMAIN ret.affectedJobs \subseteq DOMAIN ret.ciopConfigs

\* the candidate removed one of the two test steps of FileA, and another
\* file has an entry of affected test names
C30_Witness ==
    /\ Diffing
    /\ Returns("ciopConfigs")
    /\ FileA \in DOMAIN call.masterConfig \cap DOMAIN call.prConfig
    /\ OnlyRemovesTests(call.masterConfig[FileA], call.prConfig[FileA])
    /\ Len(call.masterConfig[FileA].Tests) = 2
    /\ Len(call.prConfig[FileA].Tests) = 1
    /\ FileA \notin DOMAIN ret.ciopConfigs
    /\ DOMAIN ret.affectedJobs = {FileB}

(***************************************************************************)
(* Part 3: the eligibility filter of pkg/rehearse/jobs.go, filterJobs and  *)
(* filterJob.  Every job has a Spec with exactly one container.            *)
(***************************************************************************)
ErrCommand == "cannot rehearse jobs that have Command different from simple 'ci-operator'"

ErrGitRef == "cannot rehearse jobs that call ci-operator with '--git-ref' arg"

ErrVolumes == "jobs that need additional volumes mounted are not allowed"

\* the arguments "--git-ref" and "-git-ref" as pieces
GitRefLong == <<"-", "-git-ref">>

GitRefShort == <<"-git-ref">>

\* mutant: only the long form of the argument is looked for
OverridesGitRef_LongOnly(arg) == HasPrefix(arg, GitRefLong)

OverridesGitRef(arg) == HasPrefix(arg, GitRefLong) \/ HasPrefix(arg, GitRefShort)

filterJob(spec, allowVolumes) ==
    LET container == spec.Containers[1]
    IN  IF Len(container.Command) # 1 \/ container.Command[1] # "ci-operator"
        THEN ErrCommand
        ELSE IF \E i \in DOMAIN container.Args : OverridesGitRef(container.Args[i])
        THEN ErrGitRef
        ELSE IF Len(spec.Volumes) > 0 /\ ~allowVolumes
        THEN ErrVolumes
        ELSE NoError

\* the two tests of len(job.Branches) in the loop over the presubmits
WrongBranches(job) == Len(job.Branches) = 0 \/ Len(job.Branches) # 1

filterJobs(changedPresubmits, changedPeriodics, allowVolumes) ==
    LET added(repo) ==
            {job \in Range(changedPresubmits[repo]) :
                ~WrongBranches(job) /\ filterJob(job.Spec, allowVolumes) = NoError}
    IN  [presubmits |-> [repo \in {r \in DOMAIN changedPresubmits : added(r) # {}} |->
                            added(repo)],
         periodics  |-> SelectSeq(changedPeriodics,
                                  LAMBDA periodic : filterJob(periodic.Spec, allowVolumes) = NoError)]

(***************************************************************************)
(* The jobs filterJobs is applied to.                                      *)
(***************************************************************************)
Commands == {<<"ci-operator">>, <<"ci-operator", "--dry-run">>, <<"/bin/bash">>, <<>>}

\* no argument, "--target=unit", "--git-ref=org/repo@master", "-git-ref" after
\* another argument, and an argument that holds "--git-ref" further in
ArgLists ==
    {<<>>,
     << <<"-", "-target=unit">> >>,
     << <<"-", "-git-ref", "=org/repo@master">> >>,
     << <<"-", "-target=unit">>, <<"-git-ref">> >>,
     << <<"-", "-target=", "-", "-git-ref">> >>}

VolumeLists == {<<>>, <<[Name |-> "cluster-profile"]>>}

BranchLists == {<<>>, <<"master">>, <<"master", "release">>}

PodSpecs ==
    {PodSpec("ci-operator:v1", command, args, <<>>, volumes) :
        command \in Commands, args \in ArgLists, volumes \in VolumeLists}

EligibleSpec == PodSpec("ci-operator:v1", <<"ci-operator">>, <<>>, <<>>, <<>>)

FilteredPresubmits ==
    [Name : {JobName(Repo1, "master", TestName(1))}, Agent : Agents, Spec : PodSpecs,
     Branches : BranchLists, Context : {"ci/prow/test"}]

\* a presubmit that passes, and one of two branches
FewFilteredPresubmits ==
    [Name : {JobName(Repo1, "master", TestName(2))}, Agent : {KubernetesAgent},
     Spec : {EligibleSpec}, Branches : {<<"master">>, <<"master", "release">>},
     Context : {"ci/prow/test"}]

FilteredPeriodics ==
    [Name : {<<"nightly">>}, Agent : Agents,
     Spec : {sp \in PodSpecs : sp.Containers[1].Command \in {<<"ci-operator">>, <<"/bin/bash">>}},
     Interval : {"24h"}]

FewFilteredPeriodics ==
    [Name : {<<"weekly">>}, Agent : {KubernetesAgent}, Spec : {EligibleSpec}, Interval : {"24h"}]

InitFilter ==
    /\ AtRest
    /\ \E j1 \in FilteredPresubmits \cup {Nil}, j2 \in FewFilteredPresubmits \cup {Nil},
          p1 \in FilteredPeriodics \cup {Nil}, p2 \in FewFilteredPeriodics \cup {Nil},
          allow \in BOOLEAN :
        call = [fn |-> "filterJobs",
                changedPresubmits |-> PresubmitsOf(j1, j2, Nil),
                changedPeriodics |-> Present(<<p1, p2>>),
                allowVolumes |-> allow]
    /\ ret = [fn |-> "filterJobs"]

CallFilterJobs ==
    /\ call.fn = "filterJobs"
    /\ ~Returns("presubmits")
    /\ LET r == filterJobs(call.changedPresubmits, call.changedPeriodics, call.allowVolumes)
       IN  ret' = [fn |-> "filterJobs", presubmits |-> r.presubmits, periodics |-> r.periodics]
    /\ UNCHANGED <<call, executor>>

NextFilter == CallFilterJobs

SpecFilter == InitFilter /\ [][NextFilter]_vars

Filtered == call.fn = "filterJobs" /\ Returns("presubmits")

(***************************************************************************)
(* C17: the eligibility filter rejects every job, presubmit or periodic,   *)
(* whose agent is not kubernetes: filterJobs returns no such job.          *)
(***************************************************************************)
C17_FilterRejectsOtherAgents ==
    Filtered =>
        /\ \A p \in Selection(ret.presubmits) : p[2].Agent = KubernetesAgent
        /\ \A periodic \in Range(ret.periodics) : periodic.Agent = KubernetesAgent

\* arg starts with "--git-ref" or with "-git-ref"
StartsWithGitRef(arg) ==
    /\ arg # <<>>
    /\ \/ arg[1] = "-git-ref"
       \/ Len(arg) >= 2 /\ arg[1] = "-" /\ arg[2] = "-git-ref"

\* the conditions on the pod of a job
SpecPasses(spec) ==
    /\ spec.Containers[1].Command = <<"ci-operator">>
    /\ \A arg \in Range(spec.Containers[1].Args) : ~StartsWithGitRef(arg)
    /\ spec.Volumes = <<>> \/ call.allowVolumes

PresubmitPasses(job) == Len(job.Branches) = 1 /\ SpecPasses(job.Spec)

PeriodicPasses(job) == SpecPasses(job.Spec)

(***************************************************************************)
(* C18: filterJobs returns exactly the input jobs that satisfy the         *)
(* eligibility predicate, and the rejection of a job drops no other job.   *)
(* A presubmit passes iff it has exactly one branch pattern, its command   *)
(* is the single element ci-operator, no argument starts with --git-ref or *)
(* -git-ref, and it has no volumes or allowVolumes is true; a periodic     *)
(* passes iff the last three conditions hold.                              *)
(***************************************************************************)
C18_FilterReturnsExactlyTheEligible ==
    Filtered =>
        /\ Selection(ret.presubmits) =
              {p \in AllPresubmits([Presubmits |-> call.changedPresubmits]) :
                  PresubmitPasses(p[2])}
        /\ ret.periodics = SelectSeq(call.changedPeriodics, PeriodicPasses)

\* a presubmit of two branches that is eligible otherwise is rejected, the
\* other presubmit and a periodic are returned, another periodic is rejected
C18_Witness ==
    /\ Filtered
    /\ \E p \in AllPresubmits([Presubmits |-> call.changedPresubmits]) :
          /\ Len(p[2].Branches) = 2
          /\ SpecPasses(p[2].Spec)
          /\ p \notin Selection(ret.presubmits)
    /\ Selection(ret.presubmits) # {}
    /\ Len(ret.periodics) = 1
    /\ Len(call.changedPeriodics) = 2

(***************************************************************************)
(* Part 4: the rehearsal builder of pkg/rehearse/jobs.go, JobConfigurer.   *)
(* A job is a struct with two pointers, Labels (a map) and Spec (the pod   *)
(* with its one container); what they point to is in the memory mem, a     *)
(* sequence of objects whose index is the address, 0 the nil pointer:      *)
(*   a map of labels;                                                      *)
(*   a pod [Command, Args, Env, VolumeMounts, Volumes], Args a slice       *)
(*     header, Env the address of the array of the variables;              *)
(*   the backing array of Args and the array of Env;                       *)
(*   a ConfigMap source [Name], pointed to by a volume or by a source of a *)
(*     projected volume (Projected lists the sources, none when it is nil).*)
(* The value of a job is the job with every pointer replaced by what it    *)
(* points to: what json.Marshal writes.                                    *)
(***************************************************************************)
\* Continue applied to value: the statements that follow the one that made it
Then(value, Continue(_)) == Continue(value)

\* allocate the objects of the list values that are not Nil, in order
RECURSIVE AllocAll(_, _)
AllocAll(mem, values) ==
    IF values = <<>> THEN [mem |-> mem, ptrs |-> <<>>]
    ELSE IF Head(values) = Nil
    THEN Then(AllocAll(mem, Tail(values)), LAMBDA rest :
             [mem |-> rest.mem, ptrs |-> <<0>> \o rest.ptrs])
    ELSE Then(AllocAll(Append(mem, Head(values)), Tail(values)), LAMBDA rest :
             [mem |-> rest.mem, ptrs |-> <<Len(mem) + 1>> \o rest.ptrs])

\* allocate what the volumes of the value list point to
RECURSIVE AllocVolumes(_, _)
AllocVolumes(mem, volumes) ==
    IF volumes = <<>> THEN [mem |-> mem, volumes |-> <<>>]
    ELSE Then(AllocAll(mem, <<Head(volumes).ConfigMap>> \o Head(volumes).Projected),
              LAMBDA sources :
         Then(AllocVolumes(sources.mem, Tail(volumes)), LAMBDA rest :
             [mem     |-> rest.mem,
              volumes |-> <<[Name      |-> Head(volumes).Name,
                             ConfigMap |-> Head(sources.ptrs),
                             Projected |-> Tail(sources.ptrs)]>>
                          \o rest.volumes]))

\* json.Unmarshal of the value of a job into a new job: every object is new;
\* the array of Args has room for spare more arguments
Unmarshal(mem, value, spare) ==
    LET container == value.Spec.Containers[1]
    IN  Then(AllocAll(mem, <<value.Labels>>), LAMBDA labels :
        Then(IF container.Args = <<>> /\ spare = 0
             THEN [mem |-> labels.mem, slice |-> NilSlice]
             ELSE [mem   |-> Append(labels.mem,
                                    container.Args \o [i \in 1..spare |-> ZeroValue]),
                   slice |-> [arr |-> Len(labels.mem) + 1,
                              len |-> Len(container.Args),
                              cap |-> Len(container.Args) + spare]],
             LAMBDA args :
        Then(AllocVolumes(Append(args.mem, container.Env), value.Spec.Volumes),
             LAMBDA vols :
            [mem |-> Append(vols.mem, [Command      |-> container.Command,
                                       Args         |-> args.slice,
                                       Env          |-> Len(args.mem) + 1,
                                       VolumeMounts |-> container.VolumeMounts,
                                       Volumes      |-> vols.volumes]),
             job |-> [value EXCEPT !.Labels = labels.ptrs[1],
                                   !.Spec = Len(vols.mem) + 1]])))

Deref(mem, ptr) == IF ptr = 0 THEN Nil ELSE mem[ptr]

\* json.Marshal of a job
Marshal(mem, job) ==
    LET pod == mem[job.Spec]
    IN  [job EXCEPT
            !.Labels = Deref(mem, job.Labels),
            !.Spec = [Containers |-> <<[Command      |-> pod.Command,
                                        Args         |-> SliceElems(mem, pod.Args),
                                        Env          |-> mem[pod.Env],
                                        VolumeMounts |-> pod.VolumeMounts]>>,
                      Volumes    |->
                          [i \in DOMAIN pod.Volumes |->
                              [Name      |-> pod.Volumes[i].Name,
                               ConfigMap |-> Deref(mem, pod.Volumes[i].ConfigMap),
                               Projected |->
                                   [k \in DOMAIN pod.Volumes[i].Projected |->
                                       Deref(mem, pod.Volumes[i].Projected[k])]]]]]

\* mutant: the copy is the struct of the source, with the pointers of the source
Copy_Shallow(mem, source) == [mem |-> mem, job |-> source]

\* deepcopy.Copy(&rehearsal, source): json.Marshal, then json.Unmarshal
Copy(mem, source) == Unmarshal(mem, Marshal(mem, source), 0)

\* mutant: the suffix is left where it is
TrimSuffix_KeepsSuffix(s, suffix) == s

TrimSuffix(s, suffix) ==
    IF Len(s) >= Len(suffix) /\ SubSeq(s, Len(s) - Len(suffix) + 1, Len(s)) = suffix
    THEN SubSeq(s, 1, Len(s) - Len(suffix))
    ELSE s

defaultRehearsalRerunCommand == "/test pj-rehearse"

\* fmt.Sprintf("rehearse-%d-%s", prNumber, name)
RehearsalName(pr, name) == <<"rehearse", "-">> \o Itoa(pr) \o <<"-">> \o name

\* m[key] = value on the map at ptr, made first when ptr is nil
SetLabel(mem, ptr, key, value) ==
    IF ptr = 0
    THEN [mem |-> Append(mem, key :> value), ptr |-> Len(mem) + 1]
    ELSE [mem |-> [mem EXCEPT ![ptr] =
                      [k \in DOMAIN mem[ptr] \cup {key} |->
                          IF k = key THEN value ELSE mem[ptr][k]]],
          ptr |-> ptr]

\* mutant: the label is given the number of the pull request without "rehearse"
Stamp_OtherLabel(mem, ptr, pr) == SetLabel(mem, ptr, "pr", Itoa(pr))

\* rehearsal.Labels[rehearseLabel] = strconv.Itoa(prNumber), on a map that is
\* made when rehearsal.Labels is nil
Stamp(mem, ptr, pr) == SetLabel(mem, ptr, rehearseLabel, Itoa(pr))

makeRehearsalPresubmit(mem, source, repo, pr) ==
    LET branch    == TrimPrefix(TrimSuffix(source.Branches[1], <<"$">>), <<"^">>)
        shortName == TrimPrefix(source.Context, <<"ci/prow/">>)
        gitrefArg == <<"-", "-git-ref", "=">> \o repo \o <<"@">> \o branch
    IN  Then(Copy(mem, source), LAMBDA rehearsal :
        Then(GoAppend(rehearsal.mem, rehearsal.mem[source.Spec].Args, gitrefArg),
             LAMBDA appended :
        Then(Stamp([appended.heap EXCEPT ![rehearsal.job.Spec].Args = appended.slice],
                   rehearsal.job.Labels, pr),
             LAMBDA labelled :
            [mem |-> labelled.mem,
             job |-> [rehearsal.job EXCEPT
                         !.Name = RehearsalName(pr, source.Name),
                         !.Context = <<"ci/rehearse/">> \o repo \o <<"/">> \o branch \o <<"/">>
                                        \o shortName,
                         !.RerunCommand = defaultRehearsalRerunCommand,
                         !.Optional = TRUE,
                         !.Labels = labelled.ptr]])))

makeRehearsalPeriodic(mem, source, pr) ==
    Then(Copy(mem, source), LAMBDA rehearsal :
    Then(Stamp(rehearsal.mem, rehearsal.job.Labels, pr), LAMBDA labelled :
        [mem |-> labelled.mem,
         job |-> [rehearsal.job EXCEPT !.Name = RehearsalName(pr, source.Name),
                                       !.Labels = labelled.ptr]]))

\* yaml.Marshal of a BuildConfig
YamlMarshal(ciopConfig) == <<"yaml", ciopConfig>>

ErrNotFound == "ci-operator config file was not found"

\* mutant: the value is set, the reference to the ConfigMap stays
Inlined_KeepsValueFrom(e, content) == [e EXCEPT !.Value = content]

\* env.Value = string(ciOpConfigContent); env.ValueFrom = nil
Inlined(e, content) == [e EXCEPT !.Value = content, !.ValueFrom = Nil]

\* inlineCiOpConfig from the variable index on; env is the address of the
\* array of container.Env
RECURSIVE inlineCiOpConfig(_, _, _, _)
inlineCiOpConfig(mem, env, ciopConfigs, index) ==
    IF index > Len(mem[env]) THEN [mem |-> mem, err |-> NoError]
    ELSE LET e == mem[env][index]
         IN  IF e.ValueFrom = Nil
             THEN inlineCiOpConfig(mem, env, ciopConfigs, index + 1)
             ELSE IF e.ValueFrom.ConfigMapKeyRef = Nil
             THEN inlineCiOpConfig(mem, env, ciopConfigs, index + 1)
             ELSE IF ~IsCiopConfigCM(e.ValueFrom.ConfigMapKeyRef.Name)
             THEN inlineCiOpConfig(mem, env, ciopConfigs, index + 1)
             ELSE LET filename == e.ValueFrom.ConfigMapKeyRef.Key
                  IN  IF filename \notin DOMAIN ciopConfigs
                      THEN [mem |-> mem, err |-> ErrNotFound]
                      ELSE inlineCiOpConfig(
                               [mem EXCEPT ![env][index] =
                                   Inlined(e, YamlMarshal(ciopConfigs[filename]))],
                               env, ciopConfigs, index + 1)

(***************************************************************************)
(* Templates and cluster profiles (config.ConfigMapSource): a file name    *)
(* as directory and base name, and the SHA of the content.                 *)
(***************************************************************************)
Base(source) == source.Filename[Len(source.Filename)]

ClusterProfilePrefix == "cluster-profile-"

\* ConfigMapSource.CMName and ConfigMapSource.TempCMName
CMName(source, prefix) == <<prefix, Base(source)>>

TempCMName(source, prefix) == <<"rehearse", source.SHA, prefix, Base(source)>>

NilDereference == "panic: nil pointer dereference"

\* mutant: the name a volume gets ends in the address of its ConfigMap source
RECURSIVE replaceCMTemplateName_NamePerVolume(_, _, _, _, _)
replaceCMTemplateName_NamePerVolume(mem, volumeMounts, volumes, mapping, k) ==
    IF k > Len(volumes) * Len(volumeMounts) THEN [mem |-> mem, err |-> NoError]
    ELSE LET volume      == volumes[((k - 1) \div Len(volumeMounts)) + 1]
             volumeMount == volumeMounts[((k - 1) % Len(volumeMounts)) + 1]
         IN  IF volumeMount.SubPath \in DOMAIN mapping /\ volumeMount.Name = volume.Name
             THEN IF volume.ConfigMap = 0
                  THEN [mem |-> mem, err |-> NilDereference]
                  ELSE replaceCMTemplateName_NamePerVolume(
                           [mem EXCEPT ![volume.ConfigMap].Name =
                               Append(mapping[volumeMount.SubPath], volume.ConfigMap)],
                           volumeMounts, volumes, mapping, k + 1)
             ELSE replaceCMTemplateName_NamePerVolume(mem, volumeMounts, volumes, mapping, k + 1)

\* replaceCMTemplateName from the k-th pair of a volume and a volume mount on
RECURSIVE replaceCMTemplateName(_, _, _, _, _)
replaceCMTemplateName(mem, volumeMounts, volumes, mapping, k) ==
    IF k > Len(volumes) * Len(volumeMounts) THEN [mem |-> mem, err |-> NoError]
    ELSE LET volume      == volumes[((k - 1) \div Len(volumeMounts)) + 1]
             volumeMount == volumeMounts[((k - 1) % Len(volumeMounts)) + 1]
         IN  IF volumeMount.SubPath \in DOMAIN mapping /\ volumeMount.Name = volume.Name
             THEN IF volume.ConfigMap = 0
                  THEN [mem |-> mem, err |-> NilDereference]
                  ELSE replaceCMTemplateName(
                           [mem EXCEPT ![volume.ConfigMap].Name = mapping[volumeMount.SubPath]],
                           volumeMounts, volumes, mapping, k + 1)
             ELSE replaceCMTemplateName(mem, volumeMounts, volumes, mapping, k + 1)

\* the loop over v.Projected.Sources with the function replace, from source k on
RECURSIVE replace(_, _, _, _)
replace(mem, sources, nameMap, k) ==
    IF k > Len(sources) THEN mem
    ELSE IF sources[k] = 0 THEN replace(mem, sources, nameMap, k + 1)
    ELSE IF mem[sources[k]].Name \notin DOMAIN nameMap THEN replace(mem, sources, nameMap, k + 1)
    ELSE replace([mem EXCEPT ![sources[k]].Name = nameMap[mem[sources[k]].Name]],
                 sources, nameMap, k + 1)

\* replaceClusterProfiles from volume i on
RECURSIVE replaceClusterProfiles(_, _, _, _)
replaceClusterProfiles(mem, volumes, profiles, i) ==
    LET names   == {CMName(profiles[k], ClusterProfilePrefix) : k \in DOMAIN profiles}
        nameMap == [n \in names |->
                       TempCMName(profiles[CHOOSE k \in DOMAIN profiles :
                                      /\ CMName(profiles[k], ClusterProfilePrefix) = n
                                      /\ \A j \in DOMAIN profiles :
                                            CMName(profiles[j], ClusterProfilePrefix) = n => j <= k],
                                  "cluster-profile")]
    IN  IF i > Len(volumes) THEN mem
        ELSE IF volumes[i].Name # "cluster-profile" \/ volumes[i].Projected = <<>>
        THEN replaceClusterProfiles(mem, volumes, profiles, i + 1)
        ELSE replaceClusterProfiles(replace(mem, volumes[i].Projected, nameMap, 1),
                                    volumes, profiles, i + 1)

\* JobConfigurer.configureJob on the pod at the address spec
configureJob(mem, jc, spec) ==
    Then(inlineCiOpConfig(mem, mem[spec].Env, jc.ciopConfigs, 1), LAMBDA inlined :
        IF inlined.err # NoError \/ ~jc.allowVolumes THEN inlined
        ELSE Then(replaceCMTemplateName(inlined.mem, mem[spec].VolumeMounts,
                                        mem[spec].Volumes, jc.templateMap, 1),
                  LAMBDA renamed :
                 IF renamed.err # NoError THEN renamed
                 ELSE [mem |-> replaceClusterProfiles(renamed.mem, mem[spec].Volumes,
                                                      jc.profiles, 1),
                       err |-> NoError]))

\* NewJobConfigurer: the jobs are filtered, the template map is made empty
NewJobConfigurer(mem, presubmits, periodics, ciopConfigs, pr, allowVolumes, templates, profiles) ==
    LET values(list) == [i \in DOMAIN list |-> Marshal(mem, list[i])]
    IN  Then(filterJobs([repo \in DOMAIN presubmits |-> values(presubmits[repo])],
                        values(periodics), allowVolumes),
             LAMBDA filtered :
            [presubmits   |-> [repo \in DOMAIN filtered.presubmits |->
                                  SelectSeq(presubmits[repo],
                                            LAMBDA job : Marshal(mem, job)
                                                             \in filtered.presubmits[repo])],
             periodics    |-> SelectSeq(periodics,
                                        LAMBDA job : Marshal(mem, job)
                                                         \in Range(filtered.periodics)),
             ciopConfigs  |-> ciopConfigs,
             templates    |-> templates,
             profiles     |-> profiles,
             prNumber     |-> pr,
             allowVolumes |-> allowVolumes,
             templateMap  |-> <<>>])

\* mutant: a job that cannot be configured empties the list of the rehearsals
Configured_DropsEarlier(acc, jc, job, made) ==
    Then(configureJob(made.mem, jc, made.job.Spec), LAMBDA c :
        IF c.err = NilDereference THEN [acc EXCEPT !.mem = c.mem, !.panic = TRUE]
        ELSE IF c.err # NoError
        THEN [acc EXCEPT !.mem = c.mem, !.rehearsals = <<>>,
                         !.warnings = Append(@, [job |-> job.Name, err |-> c.err])]
        ELSE [acc EXCEPT !.mem = c.mem, !.rehearsals = Append(@, made.job)])

\* the end of the body of the loops of configurePresubmits and of
\* configurePeriodics: the rehearsal made of job is configured and appended,
\* or the error is logged as a warning of jc.loggers.Job and the job skipped
Configured(acc, jc, job, made) ==
    Then(configureJob(made.mem, jc, made.job.Spec), LAMBDA c :
        IF c.err = NilDereference THEN [acc EXCEPT !.mem = c.mem, !.panic = TRUE]
        ELSE IF c.err # NoError
        THEN [acc EXCEPT !.mem = c.mem,
                         !.warnings = Append(@, [job |-> job.Name, err |-> c.err])]
        ELSE [acc EXCEPT !.mem = c.mem, !.rehearsals = Append(@, made.job)])

\* configurePresubmits over the pairs todo of a repository and a job of it
RECURSIVE configurePresubmits(_, _, _)
configurePresubmits(acc, jc, todo) ==
    IF todo = <<>> \/ acc.panic THEN acc
    ELSE configurePresubmits(
             Configured(acc, jc, Head(todo)[2],
                        makeRehearsalPresubmit(acc.mem, Head(todo)[2], Head(todo)[1],
                                               jc.prNumber)),
             jc, Tail(todo))

RECURSIVE configurePeriodics(_, _, _)
configurePeriodics(acc, jc, todo) ==
    IF todo = <<>> \/ acc.panic THEN acc
    ELSE configurePeriodics(
             Configured(acc, jc, Head(todo),
                        makeRehearsalPeriodic(acc.mem, Head(todo), jc.prNumber)),
             jc, Tail(todo))

\* the pairs of a repository and a job, the repositories in the order repos
RECURSIVE InOrder(_, _)
InOrder(presubmits, repos) ==
    IF repos = <<>> THEN <<>>
    ELSE [i \in DOMAIN presubmits[Head(repos)] |-> <<Head(repos), presubmits[Head(repos)][i]>>]
             \o InOrder(presubmits, Tail(repos))

\* the orders a range over a map of these keys can take
Orders(keys) == {o \in UNION {[1..n -> keys] : n \in 0..2} :
                    Len(o) = Cardinality(keys) /\ Range(o) = keys}

\* JobConfigurer.ConfigureRehearsalJobs, the map of the presubmits ranged over
\* in the order repos
ConfigureRehearsalJobs(mem, jc, repos) ==
    LET templateMap == IF jc.allowVolumes
                       THEN [n \in {Base(jc.templates[k]) : k \in DOMAIN jc.templates} |->
                                TempCMName(jc.templates[
                                               CHOOSE k \in DOMAIN jc.templates :
                                                   /\ Base(jc.templates[k]) = n
                                                   /\ \A j \in DOMAIN jc.templates :
                                                         Base(jc.templates[j]) = n => j <= k],
                                           "template")]
                       ELSE jc.templateMap
    IN  Then([jc EXCEPT !.templateMap = templateMap], LAMBDA configurer :
        Then(configurePresubmits([mem |-> mem, rehearsals |-> <<>>, panic |-> FALSE,
                                  warnings |-> <<>>],
                                 configurer, InOrder(jc.presubmits, repos)),
             LAMBDA presubmits :
        Then(configurePeriodics([mem |-> presubmits.mem, rehearsals |-> <<>>,
                                 panic |-> presubmits.panic,
                                 warnings |-> presubmits.warnings],
                                configurer, jc.periodics),
             LAMBDA periodics :
            [mem        |-> periodics.mem,
             jc         |-> configurer,
             panic      |-> periodics.panic,
             warnings   |-> periodics.warnings,
             presubmits |-> IF periodics.panic THEN <<>> ELSE presubmits.rehearsals,
             periodics  |-> IF periodics.panic THEN <<>> ELSE periodics.rehearsals])))

(***************************************************************************)
(* The jobs the builder is applied to: values of jobs, loaded into the     *)
(* memory before the call.                                                 *)
(***************************************************************************)
\* pull request numbers of one, two and three digits
PRNumbers == {MaxPR, 12, 123}

\* no labels, a label of the job, and the label of an earlier rehearsal too
LabelMaps ==
    {Nil, "team" :> <<"a">>, ("team" :> <<"a">>) @@ (rehearseLabel :> Itoa(9))}

BuilderArgLists == {<<>>, << <<"-", "-target=unit">> >>}

\* no variable, the BuildConfig of FileA (present in the corpus), the
\* BuildConfig of FileB (not there), a literal before the one of FileA, and
\* a secret and a key of another ConfigMap before the one of FileA
BuilderEnvironments ==
    {<<>>,
     <<FromConfigMap("ci-operator-configs", FileA)>>,
     <<FromConfigMap("ci-operator-configs", FileB)>>,
     <<Literal, FromConfigMap("ci-operator-configs", FileA)>>,
     <<FromSecret, FromConfigMap("release-configs", FileB),
       FromConfigMap("ci-operator-configs", FileA)>>}

TemplateFile == "cluster-launch-e2e.yaml"

Template == [Filename |-> <<"ci-operator/templates", TemplateFile>>, SHA |-> "3f2a"]

Profile == [Filename |-> <<"cluster/test-deploy", "aws">>, SHA |-> "9c4d"]

TemplateMount == [Name |-> "job-definition", SubPath |-> TemplateFile]

\* no volume; the template in a ConfigMap volume; a volume of the name of the
\* mount that is no ConfigMap volume; a projected cluster profile with a
\* secret source, the profile and a ConfigMap that is no profile
Mounted ==
    {[VolumeMounts |-> <<>>, Volumes |-> <<>>],
     [VolumeMounts |-> <<TemplateMount>>,
      Volumes      |-> <<[Name |-> "job-definition",
                          ConfigMap |-> [Name |-> <<"prow-job-cluster-launch-e2e">>],
                          Projected |-> <<>>]>>],
     [VolumeMounts |-> <<TemplateMount>>,
      Volumes      |-> <<[Name |-> "job-definition", ConfigMap |-> Nil, Projected |-> <<>>]>>],
     [VolumeMounts |-> <<[Name |-> "cluster-profile", SubPath |-> ""]>>,
      Volumes      |-> <<[Name |-> "cluster-profile", ConfigMap |-> Nil,
                          Projected |-> <<Nil,
                                          [Name |-> CMName(Profile, ClusterProfilePrefix)],
                                          [Name |-> <<"pull-secret">>]>>]>>]}

BuilderSpec(args, env, mounted) ==
    [Containers |-> <<[Command |-> <<"ci-operator">>, Args |-> args, Env |-> env,
                       VolumeMounts |-> mounted.VolumeMounts]>>,
     Volumes    |-> mounted.Volumes]

BranchPatterns == {<< <<"^", "master", "$">> >>, << <<"release">> >>,
                   << <<"^", "master", "$">>, <<"release">> >>}

\* the presubmit of test i of repository repo
SourcePresubmit(repo, i, labels, spec, branches) ==
    [Name |-> JobName(repo, "master", TestName(i)), Agent |-> KubernetesAgent,
     Context |-> <<"ci/prow/">> \o TestName(i), RerunCommand |-> "/test",
     Optional |-> FALSE, Labels |-> labels, Spec |-> spec, Branches |-> branches]

SourcePeriodic(labels, spec) ==
    [Name |-> <<"nightly">>, Agent |-> KubernetesAgent, Interval |-> "24h",
     Labels |-> labels, Spec |-> spec]

\* the values of the list loaded: each is unmarshalled, its Args with room
\* for spare more arguments
RECURSIVE Load(_, _, _)
Load(mem, values, spare) ==
    IF values = <<>> THEN [mem |-> mem, jobs |-> <<>>]
    ELSE Then(Unmarshal(mem, Head(values), spare), LAMBDA first :
         Then(Load(first.mem, Tail(values), spare), LAMBDA rest :
             [mem |-> rest.mem, jobs |-> <<first.job>> \o rest.jobs]))

\* the call of the builder on the presubmits p1 of Repo1 and p2 of Repo2 and
\* on the periodics
BuilderCall(p1, p2, periodics, spare, pr, allow, templates, profiles) ==
    Then(Load(<<>>, p1, spare), LAMBDA l1 :
    Then(Load(l1.mem, p2, spare), LAMBDA l2 :
    Then(Load(l2.mem, periodics, spare), LAMBDA l3 :
        [fn           |-> "configure",
         mem          |-> l3.mem,
         presubmits   |-> [repo \in (IF p1 = <<>> THEN {} ELSE {Repo1})
                                        \cup (IF p2 = <<>> THEN {} ELSE {Repo2}) |->
                              IF repo = Repo1 THEN l1.jobs ELSE l2.jobs],
         periodics    |-> l3.jobs,
         ciopConfigs  |-> DefaultCiop,
         prNumber     |-> pr,
         allowVolumes |-> allow,
         templates    |-> templates,
         profiles     |-> profiles])))

\* a presubmit of Repo1 of every kind, with or without an eligible presubmit
\* of Repo2, whose context is not under ci/prow/, and a periodic
InitConfigure ==
    /\ AtRest
    /\ \E labels \in LabelMaps, args \in BuilderArgLists, env \in BuilderEnvironments,
          mounted \in Mounted, branches \in BranchPatterns, others \in BOOLEAN,
          spare \in 0..1, pr \in PRNumbers, allow \in BOOLEAN,
          templates \in {<<>>, <<Template>>}, profiles \in {<<>>, <<Profile>>} :
        call = BuilderCall(
                   <<SourcePresubmit(Repo1, 1, labels, BuilderSpec(args, env, mounted), branches)>>,
                   IF others
                   THEN <<[SourcePresubmit(Repo2, 2, Nil,
                                           BuilderSpec(<<>>, <<FromConfigMap("ci-operator-configs", FileA)>>,
                                                       [VolumeMounts |-> <<>>, Volumes |-> <<>>]),
                                           << <<"^", "master", "$">> >>)
                              EXCEPT !.Context = <<"ci/openshift/">> \o TestName(2)]>>
                   ELSE <<>>,
                   IF others THEN <<SourcePeriodic(labels, BuilderSpec(args, env, mounted))>>
                   ELSE <<>>,
                   spare, pr, allow, templates, profiles)
    /\ ret = [fn |-> "configure"]

CallNewJobConfigurer ==
    /\ call.fn = "configure"
    /\ ~Returns("jc")
    /\ ret' = [fn |-> "configure",
               jc |-> NewJobConfigurer(call.mem, call.presubmits, call.periodics, call.ciopConfigs,
                                       call.prNumber, call.allowVolumes, call.templates,
                                       call.profiles)]
    /\ UNCHANGED <<call, executor>>

CallConfigureRehearsalJobs ==
    /\ call.fn = "configure"
    /\ Returns("jc")
    /\ ~Returns("presubmits")
    /\ \E repos \in Orders(DOMAIN ret.jc.presubmits) :
          ret' = [fn |-> "configure"] @@ ConfigureRehearsalJobs(call.mem, ret.jc, repos)
    /\ UNCHANGED <<call, executor>>

NextConfigure == CallNewJobConfigurer \/ CallConfigureRehearsalJobs

SpecConfigure == InitConfigure /\ [][NextConfigure]_vars

\* ConfigureRehearsalJobs has returned or panicked
Configuring == call.fn = "configure" /\ Returns("presubmits")

\* the jobs given to NewJobConfigurer
Sources == UNION {Range(call.presubmits[repo]) : repo \in DOMAIN call.presubmits}
               \cup Range(call.periodics)

(***************************************************************************)
(* C19: building the rehearsals never mutates the source jobs.  After      *)
(* ConfigureRehearsalJobs every source presubmit and periodic has the      *)
(* value it had before the call: name, context, optional flag, labels,     *)
(* arguments, environment variables and volumes, also when the inlining    *)
(* of the BuildConfig and the redirection of the templates and of the      *)
(* cluster profiles rewrote the copy.                                      *)
(***************************************************************************)
C19_SourcesNeverMutated ==
    Configuring => \A job \in Sources : Marshal(ret.mem, job) = Marshal(call.mem, job)

\* the rehearsal of the source presubmit has the BuildConfig inlined and a
\* volume redirected, and the argument was appended in the room the array of
\* the arguments of the source had
C19_Witness ==
    /\ Configuring
    /\ ~ret.panic
    /\ \E source \in Range(call.presubmits[Repo1]), rehearsal \in Range(ret.presubmits) :
          LET before == Marshal(call.mem, source)
              after  == Marshal(ret.mem, rehearsal)
              args   == call.mem[source.Spec].Args
          IN  /\ after.Name = RehearsalName(call.prNumber, before.Name)
              /\ after.Spec.Containers[1].Env # before.Spec.Containers[1].Env
              /\ after.Spec.Volumes # before.Spec.Volumes
              /\ after.Labels # before.Labels
              /\ args.len < args.cap
              /\ ret.mem[args.arr] # call.mem[args.arr]

\* the decimal digits of a number below 1000
Decimal(n) ==
    IF n < 10 THEN <<n>>
    ELSE IF n < 100 THEN <<n \div 10, n % 10>>
    ELSE <<n \div 100, (n \div 10) % 10, n % 10>>

\* rehearsal is named and labelled as a rehearsal of source for call.prNumber
RehearsalOf(rehearsal, source) ==
    LET made   == Marshal(ret.mem, rehearsal)
        from   == Marshal(call.mem, source)
        kept   == IF from.Labels = Nil THEN {} ELSE DOMAIN from.Labels \ {rehearseLabel}
    IN  /\ made.Name = <<"rehearse", "-">> \o Decimal(call.prNumber) \o <<"-">> \o from.Name
        /\ made.Labels # Nil
        /\ DOMAIN made.Labels = kept \cup {rehearseLabel}
        /\ made.Labels[rehearseLabel] = Decimal(call.prNumber)
        /\ made.Labels[rehearseLabel] = Selector(call.prNumber)[3]
        /\ \A k \in kept : made.Labels[k] = from.Labels[k]

(***************************************************************************)
(* C20: every rehearsal produced for pull request N from a source job      *)
(* named J, presubmit or periodic, is named rehearse-N-J and has the label *)
(* ci.openshift.org/rehearse with the value N, the value of the label      *)
(* selector of the Executor; every other label of the source is kept.      *)
(***************************************************************************)
C20_RehearsalNamedAndLabelled ==
    Configuring =>
        /\ \A rehearsal \in Range(ret.presubmits) :
              \E repo \in DOMAIN call.presubmits : \E source \in Range(call.presubmits[repo]) :
                  RehearsalOf(rehearsal, source)
        /\ \A rehearsal \in Range(ret.periodics) :
              \E source \in Range(call.periodics) : RehearsalOf(rehearsal, source)
        /\ ~ret.panic =>
              Len(ret.presubmits) + Len(ret.periodics) <= Cardinality(Sources)

\* a presubmit and a periodic are rehearsed for a pull request of two digits
\* or more; the periodic had a label of its own and the label of an earlier
\* rehearsal
C20_Witness ==
    /\ Configuring
    /\ call.prNumber >= 10
    /\ ret.presubmits # <<>>
    /\ \E source \in Range(call.periodics), rehearsal \in Range(ret.periodics) :
          /\ RehearsalOf(rehearsal, source)
          /\ Deref(call.mem, source.Labels) # Nil
          /\ DOMAIN Deref(call.mem, source.Labels) = {"team", rehearseLabel}
          /\ Deref(ret.mem, rehearsal.Labels)[rehearseLabel]
                 # Deref(call.mem, source.Labels)[rehearseLabel]

\* a branch pattern without its leading "^" and its trailing "$"
Unanchored(pattern) ==
    LET last == IF pattern # <<>> /\ pattern[Len(pattern)] = "$" THEN Len(pattern) - 1
                ELSE Len(pattern)
        first == IF last >= 1 /\ pattern[1] = "^" THEN 2 ELSE 1
    IN  SubSeq(pattern, first, last)

\* rehearsal is the rehearsal the claim C21 describes of the presubmit source of repo
PresubmitRehearsalOf(rehearsal, repo, source) ==
    LET made   == Marshal(ret.mem, rehearsal)
        from   == Marshal(call.mem, source)
        branch == Unanchored(from.Branches[1])
        short  == IF from.Context # <<>> /\ from.Context[1] = "ci/prow/"
                  THEN Tail(from.Context) ELSE from.Context
    IN  /\ made.Name = RehearsalName(call.prNumber, from.Name)
        /\ made.Optional
        /\ made.Context = <<"ci/rehearse/">> \o repo \o <<"/">> \o branch \o <<"/">> \o short
        /\ made.Spec.Containers[1].Args =
               Append(from.Spec.Containers[1].Args,
                      <<"-", "-git-ref", "=">> \o repo \o <<"@">> \o branch)

(***************************************************************************)
(* C21: every rehearsal presubmit is optional, has the context             *)
(* ci/rehearse/<repo>/<branch>/<context of the source without ci/prow/>    *)
(* and the arguments of the source followed by the one argument            *)
(* --git-ref=<repo>@<branch>, <branch> being the one branch pattern of the *)
(* job without a leading ^ and a trailing $.                               *)
(***************************************************************************)
C21_PresubmitRehearsalShape ==
    Configuring =>
        \A rehearsal \in Range(ret.presubmits) :
            \E repo \in DOMAIN call.presubmits : \E source \in Range(call.presubmits[repo]) :
                /\ Len(source.Branches) = 1
                /\ PresubmitRehearsalOf(rehearsal, repo, source)

\* two presubmits are rehearsed: one of an anchored pattern with an argument
\* and a context under ci/prow/, the other with a context that is not
C21_Witness ==
    /\ Configuring
    /\ Len(ret.presubmits) = 2
    /\ \E source \in Range(call.presubmits[Repo1]), rehearsal \in Range(ret.presubmits) :
          /\ PresubmitRehearsalOf(rehearsal, Repo1, source)
          /\ source.Branches[1] = <<"^", "master", "$">>
          /\ source.Context[1] = "ci/prow/"
          /\ ~source.Optional
          /\ Len(Marshal(ret.mem, rehearsal).Spec.Containers[1].Args) = 2
    /\ \E source \in Range(call.presubmits[Repo2]), rehearsal \in Range(ret.presubmits) :
          /\ PresubmitRehearsalOf(rehearsal, Repo2, source)
          /\ Marshal(ret.mem, rehearsal).Context =
                 <<"ci/rehearse/">> \o Repo2 \o <<"/", "master", "/">> \o source.Context

\* the rehearsals returned, each with the source job of its name
Rehearsals ==
    {<<rehearsal, source>> \in (Range(ret.presubmits) \cup Range(ret.periodics)) \X Sources :
        rehearsal.Name = RehearsalName(call.prNumber, source.Name)}

\* the variable is sourced from the ConfigMap of the BuildConfigs
FromBuildConfigs(e) ==
    /\ e.ValueFrom # Nil
    /\ e.ValueFrom.ConfigMapKeyRef # Nil
    /\ e.ValueFrom.ConfigMapKeyRef.Name = "ci-operator-configs"

\* the candidate BuildConfig of the key, serialized
Serialized(key) == <<"yaml", call.ciopConfigs[key]>>

(***************************************************************************)
(* C22: in every rehearsal returned by ConfigureRehearsalJobs no           *)
(* environment variable is sourced from the ConfigMap of the BuildConfigs: *)
(* each such variable of the source has become a literal, the serialized   *)
(* candidate BuildConfig of its key, and every other variable is as in the *)
(* source.                                                                 *)
(***************************************************************************)
C22_BuildConfigsInlined ==
    Configuring =>
        /\ \A rehearsal \in Range(ret.presubmits) \cup Range(ret.periodics) :
              \E pair \in Rehearsals : pair[1] = rehearsal
        /\ \A pair \in Rehearsals :
              LET made == Marshal(ret.mem, pair[1]).Spec.Containers[1].Env
                  from == Marshal(call.mem, pair[2]).Spec.Containers[1].Env
              IN  /\ Len(made) = Len(from)
                  /\ \A i \in DOMAIN from :
                        /\ ~FromBuildConfigs(made[i])
                        /\ IF FromBuildConfigs(from[i])
                           THEN /\ from[i].ValueFrom.ConfigMapKeyRef.Key \in DOMAIN call.ciopConfigs
                                /\ made[i] = [Name      |-> from[i].Name,
                                              Value     |-> Serialized(from[i].ValueFrom.ConfigMapKeyRef.Key),
                                              ValueFrom |-> Nil]
                           ELSE made[i] = from[i]

\* a presubmit and a periodic are rehearsed whose third variable is inlined
\* and whose secret and key of another ConfigMap are as they were
C22_Witness ==
    /\ Configuring
    /\ \E p \in Rehearsals, q \in Rehearsals :
          /\ p[1] \in Range(ret.presubmits)
          /\ q[1] \in Range(ret.periodics)
          /\ \A pair \in {p, q} :
                LET made == Marshal(ret.mem, pair[1]).Spec.Containers[1].Env
                    from == Marshal(call.mem, pair[2]).Spec.Containers[1].Env
                IN  /\ Len(from) = 3
                    /\ made[1] = FromSecret
                    /\ made[2] = from[2]
                    /\ FromBuildConfigs(from[3])
                    /\ made[3].Value = Serialized(FileA)

\* the presubmits and the periodics the filter of NewJobConfigurer kept
KeptPresubmits ==
    UNION {{<<repo, job>> : job \in Range(ret.jc.presubmits[repo])} :
              repo \in DOMAIN ret.jc.presubmits}

KeptPeriodics == Range(ret.jc.periodics)

\* the job reads a key of the ConfigMap of the BuildConfigs that the
\* candidate corpus does not have
MissingKey(source) ==
    \E e \in Range(call.mem[call.mem[source.Spec].Env]) :
        FromBuildConfigs(e) /\ e.ValueFrom.ConfigMapKeyRef.Key \notin DOMAIN call.ciopConfigs

\* the values of the rehearsals of a run on the one presubmit, on the one periodic
PresubmitAlone(repo, source) ==
    LET alone == ConfigureRehearsalJobs(call.mem,
                                        [ret.jc EXCEPT !.presubmits = repo :> <<source>>,
                                                       !.periodics = <<>>],
                                        <<repo>>)
    IN  {Marshal(alone.mem, r) : r \in Range(alone.presubmits)}

PeriodicAlone(source) ==
    LET alone == ConfigureRehearsalJobs(call.mem,
                                        [ret.jc EXCEPT !.presubmits = <<>>,
                                                       !.periodics = <<source>>],
                                        <<>>)
    IN  {Marshal(alone.mem, r) : r \in Range(alone.periodics)}

\* the error of the job is logged and the job has no rehearsal
FailedAlone(source) ==
    /\ \E w \in Range(ret.warnings) : w.job = source.Name /\ w.err = ErrNotFound
    /\ \A rehearsal \in Range(ret.presubmits) \cup Range(ret.periodics) :
          rehearsal.Name # RehearsalName(call.prNumber, source.Name)

TemplateFiles == {Base(call.templates[k]) : k \in DOMAIN call.templates}

\* the names of the ConfigMaps of the volumes of the job value that a volume
\* mount of the sub-path file mounts
MountedConfigMaps(value, file) ==
    {value.Spec.Volumes[v].ConfigMap.Name :
        v \in {v \in DOMAIN value.Spec.Volumes :
                  /\ value.Spec.Volumes[v].ConfigMap # Nil
                  /\ \E m \in Range(value.Spec.Containers[1].VolumeMounts) :
                        m.SubPath = file /\ m.Name = value.Spec.Volumes[v].Name}}

(***************************************************************************)
(* C24: the redirection of the templates is consistent within a run.  The  *)
(* template map is made once, in ConfigureRehearsalJobs; any two           *)
(* rehearsals of the run whose volume mounts have the file of the same     *)
(* template as sub-path have the same temporary name, the one of the map,  *)
(* in the volume of the name of the mount; when volumes are not allowed    *)
(* the volumes of every rehearsal are those of its source.                 *)
(***************************************************************************)
C24_TemplateRedirectionConsistent ==
    Configuring =>
        /\ call.allowVolumes =>
              /\ DOMAIN ret.jc.templateMap = TemplateFiles
              /\ \A file \in TemplateFiles :
                    \A p \in Rehearsals, q \in Rehearsals :
                        \A n1 \in MountedConfigMaps(Marshal(ret.mem, p[1]), file),
                           n2 \in MountedConfigMaps(Marshal(ret.mem, q[1]), file) :
                            n1 = n2 /\ n1 = ret.jc.templateMap[file]
        /\ ~call.allowVolumes =>
              /\ ret.jc.templateMap = <<>>
              /\ \A p \in Rehearsals :
                    Marshal(ret.mem, p[1]).Spec.Volumes = Marshal(call.mem, p[2]).Spec.Volumes

\* a presubmit and a periodic that mount the template are rehearsed: the
\* ConfigMap of the volume of both has the temporary name, not the one of the
\* sources
C24_Witness ==
    /\ Configuring
    /\ call.allowVolumes
    /\ TemplateFile \in DOMAIN ret.jc.templateMap
    /\ \E p \in Rehearsals, q \in Rehearsals :
          /\ p[1] \in Range(ret.presubmits)
          /\ q[1] \in Range(ret.periodics)
          /\ MountedConfigMaps(Marshal(ret.mem, p[1]), TemplateFile)
                 = {ret.jc.templateMap[TemplateFile]}
          /\ MountedConfigMaps(Marshal(ret.mem, q[1]), TemplateFile)
                 = {ret.jc.templateMap[TemplateFile]}
          /\ MountedConfigMaps(Marshal(call.mem, p[2]), TemplateFile)
                 = {<<"prow-job-cluster-launch-e2e">>}

(***************************************************************************)
(* Part 5: the supplementary selection of pkg/rehearse/jobs.go,            *)
(* AddRandomJobsForChangedTemplates.  The names of the repositories are    *)
(* sequences of characters, which sort.Strings compares byte by byte.      *)
(***************************************************************************)
clusterTypeEnvName == "CLUSTER_TYPE"

ClusterTypes == <<"aws", "gcs", "openstack", "libvirt", "vsphere", "gcp">>

hasClusterType(job, clusterType) ==
    \E i \in DOMAIN job.Spec.Containers[1].Env :
        /\ job.Spec.Containers[1].Env[i].Name = clusterTypeEnvName
        /\ job.Spec.Containers[1].Env[i].Value = <<clusterType>>

hasTemplateFile(job, templateFile) ==
    \E i \in DOMAIN job.Spec.Containers[1].VolumeMounts :
        job.Spec.Containers[1].VolumeMounts[i].SubPath = templateFile

isAlreadyRehearsed(toBeRehearsed, clusterType, templateFile) ==
    \E repo \in DOMAIN toBeRehearsed : \E i \in DOMAIN toBeRehearsed[repo] :
        /\ hasClusterType(toBeRehearsed[repo][i], clusterType)
        /\ hasTemplateFile(toBeRehearsed[repo][i], templateFile)

\* the bytes of the characters of the names of the repositories
Byte == ("-" :> 45) @@ ("/" :> 47) @@ ("a" :> 97) @@ ("b" :> 98)

\* s < t of two Go strings
RECURSIVE LessString(_, _)
LessString(s, t) ==
    IF s = <<>> THEN t # <<>>
    ELSE IF t = <<>> THEN FALSE
    ELSE IF Byte[Head(s)] # Byte[Head(t)] THEN Byte[Head(s)] < Byte[Head(t)]
    ELSE LessString(Tail(s), Tail(t))

\* mutant: the keys are taken in the descending order
RECURSIVE SortStrings_Descending(_)
SortStrings_Descending(keys) ==
    IF keys = {} THEN <<>>
    ELSE LET last == CHOOSE k \in keys : \A other \in keys \ {k} : LessString(other, k)
         IN  <<last>> \o SortStrings_Descending(keys \ {last})

\* sort.Strings of the keys of a map
RECURSIVE SortStrings(_)
SortStrings(keys) ==
    IF keys = {} THEN <<>>
    ELSE LET first == CHOOSE k \in keys : \A other \in keys \ {k} : LessString(k, other)
         IN  <<first>> \o SortStrings(keys \ {first})

\* no job picked: "", nil
NothingPicked == [repo |-> <<>>, job |-> Nil]

\* the loop of pickTemplateJob over the repositories keys, from the job i of
\* the first of them on
RECURSIVE pickFrom(_, _, _, _, _)
pickFrom(presubmits, keys, i, templateFile, clusterType) ==
    IF keys = <<>> THEN NothingPicked
    ELSE IF i > Len(presubmits[Head(keys)])
    THEN pickFrom(presubmits, Tail(keys), 1, templateFile, clusterType)
    ELSE IF presubmits[Head(keys)][i].Agent # KubernetesAgent
    THEN pickFrom(presubmits, keys, i + 1, templateFile, clusterType)
    ELSE IF /\ hasClusterType(presubmits[Head(keys)][i], clusterType)
            /\ hasTemplateFile(presubmits[Head(keys)][i], templateFile)
    THEN [repo |-> Head(keys), job |-> presubmits[Head(keys)][i]]
    ELSE pickFrom(presubmits, keys, i + 1, templateFile, clusterType)

pickTemplateJob(presubmits, templateFile, clusterType) ==
    pickFrom(presubmits, SortStrings(DOMAIN presubmits), 1, templateFile, clusterType)

\* rehearsals[repo] = append(rehearsals[repo], *job) when a job was picked
Picked(rehearsals, pick) ==
    IF pick.job = Nil THEN rehearsals
    ELSE [repo \in DOMAIN rehearsals \cup {pick.repo} |->
             IF repo = pick.repo THEN Append(Lookup(rehearsals, repo, <<>>), pick.job)
             ELSE rehearsals[repo]]

\* the two loops of AddRandomJobsForChangedTemplates from the k-th pair of a
\* template and a cluster type on
RECURSIVE AddFrom(_, _, _, _, _)
AddFrom(rehearsals, templates, toBeRehearsed, prConfigPresubmits, k) ==
    IF k > Len(templates) * Len(ClusterTypes) THEN rehearsals
    ELSE LET templateFile == Base(templates[((k - 1) \div Len(ClusterTypes)) + 1])
             clusterType  == ClusterTypes[((k - 1) % Len(ClusterTypes)) + 1]
         IN  IF isAlreadyRehearsed(toBeRehearsed, clusterType, templateFile)
             THEN AddFrom(rehearsals, templates, toBeRehearsed, prConfigPresubmits, k + 1)
             ELSE AddFrom(Picked(rehearsals,
                                 pickTemplateJob(prConfigPresubmits, templateFile, clusterType)),
                          templates, toBeRehearsed, prConfigPresubmits, k + 1)

AddRandomJobsForChangedTemplates(templates, toBeRehearsed, prConfigPresubmits) ==
    AddFrom(<<>>, templates, toBeRehearsed, prConfigPresubmits, 1)

(***************************************************************************)
(* The calls of AddRandomJobsForChangedTemplates: the presubmits of the    *)
(* candidate configuration in two repositories, "a-b" with one job and     *)
(* "a/b" with two, and of them the ones that are to be rehearsed already.  *)
(***************************************************************************)
RepoDash == <<"a", "-", "b">>

RepoSlash == <<"a", "/", "b">>

OtherTemplateFile == "cluster-launch-src.yaml"

OtherTemplate == [Filename |-> <<"ci-operator/templates", OtherTemplateFile>>, SHA |-> "77b0"]

TemplateLists ==
    {<<>>, <<Template>>, <<OtherTemplate>>, <<Template, OtherTemplate>>,
     <<OtherTemplate, Template>>}

ClusterType(type) == [Name |-> clusterTypeEnvName, Value |-> <<type>>, ValueFrom |-> Nil]

TemplateJob(agent, env, files) ==
    [Agent |-> agent,
     Spec  |-> [Containers |-> <<[Command |-> <<"ci-operator">>, Args |-> <<>>, Env |-> env,
                                  VolumeMounts |-> [i \in DOMAIN files |->
                                                       [Name |-> "job-definition",
                                                        SubPath |-> files[i]]]]>>,
                Volumes    |-> <<>>]]

\* the kinds of jobs: of aws with one template, the other, or both; of gcp;
\* of a cluster type that is not in the list; of jenkins; without a cluster
\* type; without a template
TemplateJobs ==
    {TemplateJob(KubernetesAgent, <<Literal, ClusterType("aws")>>, <<TemplateFile>>),
     TemplateJob(KubernetesAgent, <<ClusterType("aws")>>, <<OtherTemplateFile>>),
     TemplateJob(KubernetesAgent, <<ClusterType("aws")>>, <<TemplateFile, OtherTemplateFile>>),
     TemplateJob(KubernetesAgent, <<ClusterType("gcp")>>, <<TemplateFile>>),
     TemplateJob(KubernetesAgent, <<ClusterType("azure")>>, <<TemplateFile>>),
     TemplateJob(JenkinsAgent, <<ClusterType("aws")>>, <<TemplateFile>>),
     TemplateJob(KubernetesAgent, <<Literal>>, <<TemplateFile>>),
     TemplateJob(KubernetesAgent, <<ClusterType("aws")>>, <<>>)}

\* the job of the kind with the name of its place, Nil when there is none
Named(kind, name) == IF kind = Nil THEN Nil ELSE [Name |-> name] @@ kind

\* the map of the repositories that have a job
TemplatePresubmits(dash, slash) ==
    [repo \in (IF dash = <<>> THEN {} ELSE {RepoDash})
                  \cup (IF slash = <<>> THEN {} ELSE {RepoSlash}) |->
        IF repo = RepoDash THEN dash ELSE slash]

InitTemplates ==
    /\ AtRest
    /\ \E k1 \in TemplateJobs \cup {Nil}, k2 \in TemplateJobs \cup {Nil},
          k3 \in TemplateJobs \cup {Nil}, chosen \in SUBSET (1..3), templates \in TemplateLists :
          LET job(i)  == Named(<<k1, k2, k3>>[i], <<"pull-ci-e2e", i>>)
              some(i) == IF i \in chosen THEN job(i) ELSE Nil
          IN  call = [fn                 |-> "templates",
                      templates          |-> templates,
                      toBeRehearsed      |-> TemplatePresubmits(Present(<<some(1)>>),
                                                                Present(<<some(2), some(3)>>)),
                      prConfigPresubmits |-> TemplatePresubmits(Present(<<job(1)>>),
                                                                Present(<<job(2), job(3)>>))]
    /\ ret = [fn |-> "templates"]

CallAddRandomJobsForChangedTemplates ==
    /\ call.fn = "templates"
    /\ ~Returns("rehearsals")
    /\ ret' = [fn         |-> "templates",
               rehearsals |-> AddRandomJobsForChangedTemplates(call.templates, call.toBeRehearsed,
                                                               call.prConfigPresubmits)]
    /\ UNCHANGED <<call, executor>>

NextTemplates == CallAddRandomJobsForChangedTemplates

SpecTemplates == InitTemplates /\ [][NextTemplates]_vars

\* AddRandomJobsForChangedTemplates has returned
Added == call.fn = "templates" /\ Returns("rehearsals")

\* the job has the cluster type among its variables and the file as the
\* sub-path of a volume mount
Uses(job, file, type) ==
    /\ \E e \in Range(job.Spec.Containers[1].Env) :
          e.Name = "CLUSTER_TYPE" /\ e.Value = <<type>>
    /\ \E m \in Range(job.Spec.Containers[1].VolumeMounts) : m.SubPath = file

\* the places of the jobs of a map of presubmits: repository and index
Places(presubmits) ==
    UNION {{<<repo, i>> : i \in DOMAIN presubmits[repo]} : repo \in DOMAIN presubmits}

\* the place p comes before the place q: repositories in lexicographic
\* order, the order of the list within a repository
ComesBefore(p, q) == LessString(p[1], q[1]) \/ (p[1] = q[1] /\ p[2] < q[2])

\* the places of the candidates for a template file and a cluster type
Eligible(file, type) ==
    {p \in Places(call.prConfigPresubmits) :
        /\ call.prConfigPresubmits[p[1]][p[2]].Agent = KubernetesAgent
        /\ Uses(call.prConfigPresubmits[p[1]][p[2]], file, type)}

\* the place of the job to add for the k-th pair of a template and a cluster
\* type, <<>> when none is to be added
ExpectedPick(k) ==
    LET file == Base(call.templates[((k - 1) \div 6) + 1])
        type == <<"aws", "gcs", "openstack", "libvirt", "vsphere", "gcp">>[((k - 1) % 6) + 1]
    IN  IF \E p \in Places(call.toBeRehearsed) :
              Uses(call.toBeRehearsed[p[1]][p[2]], file, type)
        THEN <<>>
        ELSE IF Eligible(file, type) = {} THEN <<>>
        ELSE CHOOSE p \in Eligible(file, type) :
                 \A q \in Eligible(file, type) \ {p} : ComesBefore(p, q)

\* the jobs to add to the repository, in the order of the pairs
RECURSIVE ExpectedOf(_, _)
ExpectedOf(repo, k) ==
    IF k = 0 THEN <<>>
    ELSE IF ExpectedPick(k) # <<>> /\ ExpectedPick(k)[1] = repo
    THEN Append(ExpectedOf(repo, k - 1), call.prConfigPresubmits[repo][ExpectedPick(k)[2]])
    ELSE ExpectedOf(repo, k - 1)

C29_NoJobReturnedTwice ==
    Added =>
        \A repo \in DOMAIN ret.rehearsals :
            \A i, j \in DOMAIN ret.rehearsals[repo] :
                ret.rehearsals[repo][i] = ret.rehearsals[repo][j] => i = j

\* a job that mounts both changed templates is returned once for each
C29_Witness ==
    /\ Added
    /\ Len(call.templates) = 2
    /\ \E repo \in DOMAIN ret.rehearsals :
          \E i, j \in DOMAIN ret.rehearsals[repo] :
              /\ i < j
              /\ ret.rehearsals[repo][i] = ret.rehearsals[repo][j]
              /\ hasTemplateFile(ret.rehearsals[repo][i], TemplateFile)
              /\ hasTemplateFile(ret.rehearsals[repo][i], OtherTemplateFile)

====
